---- MODULE Spec2Model ----
(***************************************************************************)
(* A model of obsdb: the sqlite-backed cache of hourly observations        *)
(* (obs_db.c), the CSV ingest driven by libcurl/libcsv callbacks           *)
(* (download.c) and the public queries (obs_store.c).                      *)
(*                                                                         *)
(* Representation.                                                         *)
(*  - time_t values are integers (seconds since the epoch, UTC).           *)
(*  - A site identifier is a sequence of ASCII codes.                      *)
(*  - A double is an integer number of thousandths: 23.0 F is 23000,       *)
(*    0.01 in is 10, 0.005 in is 5, 0.001 in is 1; NAN is a value outside  *)
(*    the range the model uses.                                            *)
(*  - The obs table is a set of rows; a sqlite transaction is the pair     *)
(*    (in_tx, tx_base): tx_base is the table as it was at BEGIN.           *)
(***************************************************************************)
EXTENDS Integers, Sequences, FiniteSets, TLC

(***************************************************************************)
(* Program constants.                                                      *)
(***************************************************************************)
HOURSEC == 3600
DAYSEC == 24 * HOURSEC
NAN == -999999
GapSeconds == 4000
MaxMissingRanges == 100
OBS_DB_MAX_MODE == 1
OBS_DB_MIN_MODE == 2
SiteBufSize == 32

(***************************************************************************)
(* Bounds of the model.                                                    *)
(***************************************************************************)
\* the longest regular row pattern of the inventory inputs is
\* MaxMissingRanges + CapMargin rows long
CapMargin == 2
\* completed queries per behaviour
MaxQueries == 2
\* rows and cells per row of an adversarial response body
MaxFreeRows == 3
MaxFreeCols == 3
\* the downloads set up over the life of one store
MaxSetups == 3
\* the latest time given to obs_time_range_init
MaxTrTime == 5
\* the longest site identifier given to a query, in bytes
MaxSiteLen == 33
\* the downloads of one store whose transaction statements are followed
MaxTxDownloads == 3
\* the data rows of one such download
MaxTxRows == 2
\* the columns of a row given to the parser callbacks
MaxCsvCols == 5

(***************************************************************************)
(* Sequences, sets and time helpers.                                       *)
(***************************************************************************)
Range(s) == {s[i] : i \in 1..Len(s)}

MinOf(S) == CHOOSE x \in S : \A y \in S : x <= y

\* the elements of a finite set of integers in ascending order
\* (ORDER BY valid_time ASC): the i-th has i - 1 elements below it
SortAsc(S) ==
    [i \in 1..Cardinality(S) |->
        CHOOSE x \in S : Cardinality({y \in S : y < x}) = i - 1]

\* gmtime() of t with tm_hour, tm_min and tm_sec zeroed, through timegm()
DayStart(t) == t - (t % DAYSEC)

\* tm_hour of gmtime(t)
UtcHour(t) == (t % DAYSEC) \div HOURSEC

TimeRange(s, e) == [start |-> s, end |-> e]

InvertedMutOrEmpty(start, end) == start >= end

\* obs_time_range_init: if (start > end)
Inverted(start, end) == start > end

\* obs_time_range_init: *tr as it leaves it, and whether it returns tr
obs_time_range_init(tr, start, end) ==
    IF Inverted(start, end)
    THEN [tr |-> TimeRange(0, 0), ret |-> FALSE]
    ELSE [tr |-> [tr EXCEPT !.start = start, !.end = end], ret |-> TRUE]

(***************************************************************************)
(* Site identifiers (utils.h).                                             *)
(***************************************************************************)
tolower(c) == IF c \in 65..90 THEN c + 32 ELSE c

\* obs_util_str_to_lower
obs_util_str_to_lower(str) == [i \in 1..Len(str) |-> tolower(str[i])]

\* strcpy(buf, src) writes strlen(src) + 1 bytes: do they fit in buf
StrcpyInBuffer(buf_size, src) == Len(src) + 1 <= buf_size

\* the assert of obs_util_strcpy_to_lowercase: strlen(src) + 1 < buf_size
StrcpyFits(buf_size, src) == Len(src) + 1 < buf_size

StrcpyMutKeepsCase(buf_size, src) == src

\* obs_util_strcpy_to_lowercase
obs_util_strcpy_to_lowercase(buf_size, src) == obs_util_str_to_lower(src)

kden == <<107, 100, 101, 110>>
KDEN == <<75, 68, 69, 78>>

(***************************************************************************)
(* The obs table (obs_db.c).                                               *)
(***************************************************************************)
Row(site, vt, t, p) ==
    [site |-> site, valid_time |-> vt, t_f |-> t, precip_in_1hr |-> p]

InsertMutNoReplace(db, valid_time, site_id, temperature_f, precip_inches) ==
    db \cup {Row(site_id, valid_time, temperature_f, precip_inches)}

\* INSERT OR REPLACE INTO obs: PRIMARY KEY (site, valid_time)
obs_db_insert(db, valid_time, site_id, temperature_f, precip_inches) ==
    {r \in db : ~(r.site = site_id /\ r.valid_time = valid_time)}
        \cup {Row(site_id, valid_time, temperature_f, precip_inches)}

\* WHERE site = ... AND valid_time >= tr.start AND valid_time <= tr.end
RowsInRange(db, site, tr) ==
    {r \in db : r.site = site /\ r.valid_time >= tr.start /\ r.valid_time <= tr.end}

\* SELECT valid_time ... ORDER BY valid_time ASC
ScanTimes(db, site, tr) ==
    SortAsc({r.valid_time : r \in RowsInRange(db, site, tr)})

RowAt(db, site, vt) == CHOOSE r \in db : r.site = site /\ r.valid_time = vt

\* SELECT valid_time, <column> ... ORDER BY valid_time ASC
ScanRows(db, site, tr) ==
    LET ts == ScanTimes(db, site, tr)
    IN  [i \in 1..Len(ts) |-> RowAt(db, site, ts[i])]

\* obs_db_count_rows_in_range
obs_db_count_rows_in_range(db, site, tr) == Cardinality(RowsInRange(db, site, tr))

(***************************************************************************)
(* obs_db_have_inventory.  dbfail is what sqlite does during the call:     *)
(* 0 no error, -1 sqlite3_prepare_v2 fails, k > 0 the k-th sqlite3_step    *)
(* fails.                                                                  *)
(***************************************************************************)
\* difftime(later, earlier) > 4000.0
GapMutNotStrict(later, earlier) == later - earlier >= GapSeconds

GapExceeds(later, earlier) == later - earlier > GapSeconds

\* num_tr >= sizeof(trs) / sizeof(trs[0])
TrsFullMutNever(num_tr) == FALSE

TrsFull(num_tr) == num_tr >= MaxMissingRanges

\* trs[num_tr] = tr; num_tr++ : a write at index >= 100 is outside trs
PutRange(w, s, e) ==
    [w EXCEPT !.trs = Append(@, TimeRange(s, e)),
              !.overflow = @ \/ Len(w.trs) >= MaxMissingRanges]

\* obs_db_have_inventory_step_row, the n-th call: <<rc is SQLITE_ROW, *t1>>
StepRow(times, n, dbfail) ==
    IF dbfail = n \/ n > Len(times) THEN [row |-> FALSE, t1 |-> 0]
    ELSE [row |-> TRUE, t1 |-> times[n]]

\* the exit of the while (true) loop: t1 = t0 undoes the zeroing of *t1 by
\* the step that found no row
WalkDoneMutKeepsZero(w, t0) == [w EXCEPT !.t1 = 0]

WalkDone(w, t0) == [w EXCEPT !.t1 = t0]

\* one pass of the while (true) loop, making the n-th step of the scan; t1 is
\* the last row read.  A walk that has left the loop stays as it is.
WalkStep(times, dbfail, n, w) ==
    IF w.done THEN w
    ELSE LET t0 == w.t1
             s == StepRow(times, n, dbfail)
         IN  IF ~s.row \/ s.t1 = 0
             THEN [WalkDone(w, t0) EXCEPT !.done = TRUE]
             ELSE IF GapExceeds(s.t1, t0)
                  THEN LET w2 == PutRange(w, t0, s.t1)
                       IN  IF TrsFull(Len(w2.trs))
                           THEN [w2 EXCEPT !.t1 = s.t1, !.capped = TRUE, !.done = TRUE]
                           ELSE [w2 EXCEPT !.t1 = s.t1]
                  ELSE [w EXCEPT !.t1 = s.t1]

RECURSIVE WalkSteps(_, _, _, _, _)
\* the passes lo..hi of the loop, one after the other
WalkSteps(times, dbfail, lo, hi, w) ==
    IF w.done \/ lo > hi THEN w
    ELSE IF lo = hi THEN WalkStep(times, dbfail, lo, w)
    ELSE LET mid == (lo + hi) \div 2
         IN  WalkSteps(times, dbfail, mid + 1, hi,
                       WalkSteps(times, dbfail, lo, mid, w))

\* the while (true) loop: the scan has Len(times) rows, so the loop is left
\* at the latest by step Len(times) + 1, which finds no row
InventoryWalk(times, dbfail, t1, w) ==
    WalkSteps(times, dbfail, 2, Len(times) + 1, [w EXCEPT !.t1 = t1])

\* the leading-gap test made on the first row
Leading(w, tr, t1) ==
    IF t1 > tr.start /\ GapExceeds(t1, tr.start) THEN PutRange(w, tr.start, t1) ELSE w

\* the trailing-gap test made after the walk, skipped by goto ALLOCATE_AND_RETURN
Trailing(w, tr) ==
    IF ~w.capped /\ tr.end > w.t1 /\ GapExceeds(tr.end, w.t1)
    THEN PutRange(w, w.t1, tr.end) ELSE w

\* ALLOCATE_AND_RETURN
InventoryReturnMutAlwaysIncomplete(w) ==
    [rc |-> 0, missing |-> w.trs, overflow |-> w.overflow]

InventoryReturn(w) ==
    IF Len(w.trs) = 0
    THEN [rc |-> 1, missing |-> <<>>, overflow |-> w.overflow]
    ELSE [rc |-> 0, missing |-> w.trs, overflow |-> w.overflow]

\* the scan yields no first row: the whole time range is missing
NoDataMutComplete(w0, tr) == w0

NoData(w0, tr) == PutRange(w0, tr.start, tr.end)

obs_db_have_inventory(db, site, tr, dbfail) ==
    LET times == ScanTimes(db, site, tr)
        w0 == [trs |-> <<>>, t1 |-> 0, capped |-> FALSE, overflow |-> FALSE,
               done |-> FALSE]
        first == StepRow(times, 1, dbfail)
    IN  IF dbfail = -1
        THEN [rc |-> -1, missing |-> <<>>, overflow |-> FALSE]
        ELSE IF ~first.row
        THEN InventoryReturn(NoData(w0, tr))
        ELSE InventoryReturn(
                 Trailing(InventoryWalk(times, dbfail, first.t1,
                                        Leading(w0, tr, first.t1)), tr))

(***************************************************************************)
(* CSV cells.  A cell handed to col_callback is its text; the model keeps  *)
(* of a text what strtod, strptime, strstr and txt[0] make of it:          *)
(*   kind "null"     the NULL of an empty cell (CSV_EMPTY_IS_NULL)         *)
(*   kind "comment"  a text whose first character is '#'                   *)
(*   kind "hdr"      a header text; toks are the recognised names that     *)
(*                   occur in it                                           *)
(*   kind "num"      a decimal number, num thousandths                     *)
(*   kind "time"     a YYYY-MM-DDTHH:MM:SSZ time, num its epoch seconds    *)
(*   kind "junk"     any other text                                        *)
(***************************************************************************)
Cell(kind, num, toks) == [kind |-> kind, num |-> num, toks |-> toks]
NullCell == Cell("null", 0, {})
CommentCell == Cell("comment", 0, {})
HdrCell(toks) == Cell("hdr", 0, toks)
NumCell(n) == Cell("num", n, {})
TimeCell(t) == Cell("time", t, {})
JunkCell == Cell("junk", 0, {})

\* the year a time text starts with (365.2425-day years)
YearOf(t) == 1970 + (t \div 31556952)

\* strtod(txt, &end): <<end != txt, value>>; a time text starts with its year
strtod(txt) ==
    CASE txt.kind = "num" -> [ok |-> TRUE, value |-> txt.num]
      [] txt.kind = "time" -> [ok |-> TRUE, value |-> YearOf(txt.num) * 1000]
      [] OTHER -> [ok |-> FALSE, value |-> 0]

\* strptime(txt, "%Y-%m-%dT%H:%M:%SZ") and timegm
strptime(txt) ==
    IF txt.kind = "time" THEN [ok |-> TRUE, value |-> txt.num]
    ELSE [ok |-> FALSE, value |-> 0]

\* obs_download_init_csv_state, on success
InitCsvState(site_id) ==
    [header_parsed |-> FALSE, col |-> 0, vt_col |-> 0, t_col |-> 0, p_col |-> 0,
     valid_time |-> 0, site |-> site_id, t_f |-> NAN, p_in |-> NAN, error |-> FALSE]

\* the state obs_download is left with when obs_download_init_csv_state fails
ErrCsvState ==
    [header_parsed |-> FALSE, col |-> 0, vt_col |-> 0, t_col |-> 0, p_col |-> 0,
     valid_time |-> 0, site |-> <<>>, t_f |-> 0, p_in |-> 0, error |-> TRUE]

\* col_callback_parse_double
col_callback_parse_double(txt, s) ==
    IF txt.kind = "null" \/ ~strtod(txt).ok
    THEN [s EXCEPT !.error = TRUE, !.t_f = NAN]
    ELSE [s EXCEPT !.t_f = strtod(txt).value]

\* col_callback_parse_double_missing_is_zero
col_callback_parse_double_missing_is_zero(txt, s) ==
    IF txt.kind = "null" THEN [s EXCEPT !.p_in = 0]
    ELSE IF ~strtod(txt).ok THEN [s EXCEPT !.error = TRUE, !.p_in = NAN]
    ELSE [s EXCEPT !.p_in = strtod(txt).value]

\* col_callback_parse_valid_time
col_callback_parse_valid_time(txt, s) ==
    IF txt.kind = "null" \/ ~strptime(txt).ok
    THEN [s EXCEPT !.error = TRUE, !.valid_time = 0]
    ELSE [s EXCEPT !.valid_time = strptime(txt).value]

ParseColHeaderMutFixedColumns(txt, s) == [s EXCEPT !.vt_col = 1, !.t_col = 2, !.p_col = 3]

\* col_callback_parse_col_header
col_callback_parse_col_header(txt, s) ==
    IF txt.kind = "null" THEN s
    ELSE IF "Date_Time" \in txt.toks THEN [s EXCEPT !.vt_col = s.col]
    ELSE IF "air_temp_set_1" \in txt.toks THEN [s EXCEPT !.t_col = s.col]
    ELSE IF "precip_accum_one_hour_set_1" \in txt.toks THEN [s EXCEPT !.p_col = s.col]
    ELSE s

\* col_callback
col_callback(txt, s) ==
    IF s.error \/ txt.kind = "comment"
    THEN [s EXCEPT !.error = TRUE]
    ELSE LET s2 == IF ~s.header_parsed THEN col_callback_parse_col_header(txt, s)
                   ELSE IF s.col = s.vt_col THEN col_callback_parse_valid_time(txt, s)
                   ELSE IF s.col = s.t_col THEN col_callback_parse_double(txt, s)
                   ELSE IF s.col = s.p_col
                        THEN col_callback_parse_double_missing_is_zero(txt, s)
                   ELSE s
         IN  [s2 EXCEPT !.col = s.col + 1]

\* row_callback_is_error_condition
row_callback_is_error_condition(s) ==
    s.error \/ s.t_f = NAN \/ s.p_in = NAN \/ s.valid_time = 0

HeaderRowEndsMutAnyRow(s) == ~s.header_parsed

\* row_callback: is the row that ends the header row
HeaderRowEnds(s) == ~s.header_parsed /\ ~s.error

\* does row_callback call obs_db_insert for this row
RowIsInserted(s) ==
    ~HeaderRowEnds(s) /\ ~row_callback_is_error_condition(s)

\* row_callback: the parser state it leaves
row_callback_state(s) ==
    [s EXCEPT !.header_parsed = @ \/ HeaderRowEnds(s),
              !.col = 0, !.valid_time = 0, !.t_f = NAN, !.p_in = NAN,
              !.error = FALSE]

\* row_callback: the table it leaves; insert_ok is whether obs_db_insert succeeds
row_callback_db(s, db, insert_ok) ==
    IF RowIsInserted(s) /\ insert_ok
    THEN obs_db_insert(db, s.valid_time, s.site, s.t_f, s.p_in)
    ELSE db

(***************************************************************************)
(* The HTTP client of a store.  handle is the store's curl member being    *)
(* set; the counts are the calls libcurl has received that succeeded.      *)
(***************************************************************************)
\* obs_connect: .curl = 0, and libcurl untouched
NoCurl ==
    [handle |-> FALSE, global_inits |-> 0, easy_inits |-> 0,
     easy_cleanups |-> 0, global_cleanups |-> 0]

\* how obs_download_init_check_curl may go: well, or with curl_global_init,
\* curl_easy_init, one of the three curl_easy_setopt calls on the new
\* handle, or the closing curl_easy_setopt(CURLOPT_WRITEDATA) failing
CurlSetups == {"ok", "global_init", "easy_init", "setopt", "writedata"}

\* *curl = curl_init, reached when no call before it failed.  A null
\* curl_init passes the check that follows curl_easy_init (it tests curl,
\* not curl_init) and fails in the first curl_easy_setopt
StoreHandle(c, how) == [c EXCEPT !.handle = how \notin {"easy_init", "setopt"}]

\* obs_download_init_check_curl: the client state it leaves and whether it
\* returns a handle
obs_download_init_check_curl(c, how) ==
    IF c.handle
    THEN [curl |-> c, ok |-> how # "writedata"]
    ELSE IF how = "global_init"
    THEN [curl |-> c, ok |-> FALSE]
    ELSE LET c1 == [c EXCEPT !.global_inits = @ + 1]
             c2 == IF how = "easy_init" THEN c1
                   ELSE [c1 EXCEPT !.easy_inits = @ + 1]
         IN  [curl |-> StoreHandle(c2, how), ok |-> how = "ok"]

\* how obs_db_close may go: well, or with the prepare or the step of the
\* DELETE failing, or with a later call (finalize, sqlite3_close) failing
CloseOutcomes == {"ok", "prepare", "step", "close"}

\* too_old in obs_db_close
TooOld(t) == t - 60 * 60 * 24 * 555

IsTooOldMutInclusive(valid_time, too_old) == valid_time <= too_old

\* WHERE valid_time < ?
IsTooOld(valid_time, too_old) == valid_time < too_old

\* obs_db_close: the table it leaves and what it returns
obs_db_close(db, t, how) ==
    IF how \in {"prepare", "step"}
    THEN [db |-> db, rc |-> -1]
    ELSE [db |-> {r \in db : ~IsTooOld(r.valid_time, TooOld(t))},
          rc |-> IF how = "ok" THEN 0 ELSE -1]

\* obs_close: if (ptr->curl) { curl_easy_cleanup(...); curl_global_cleanup(); }
CloseCurl(c) ==
    IF c.handle
    THEN [c EXCEPT !.easy_cleanups = @ + 1, !.global_cleanups = @ + 1]
    ELSE c

\* obs_download_finalize_csv_state: the action passed to obs_db_finish_transaction
FinalizeAction(csv_state) == IF csv_state.error THEN "ROLLBACK" ELSE "COMMIT"

\* obs_db_finish_transaction: the table after COMMIT or ROLLBACK
obs_db_finish_transaction(db, base, action) ==
    IF action = "ROLLBACK" THEN base ELSE db

(***************************************************************************)
(* The windowed aggregation (obs_db.c).                                    *)
(***************************************************************************)
\* obs_db_query_calculate_num_results; -1 stands for SIZE_MAX.  A division
\* by window_increment = 0 gives +inf, which is >= SIZE_MAX / 2.
obs_db_query_calculate_num_results(tr, window_increment) ==
    IF tr.end - tr.start < 0 THEN -1
    ELSE IF window_increment = 0 THEN -1
    ELSE (tr.end - tr.start + 1) \div (HOURSEC * window_increment)

RECURSIVE AlignEnd(_, _, _)
\* while (end_prd < tr.start) end_prd += step
AlignEnd(end_prd, start, step) ==
    IF end_prd < start THEN AlignEnd(end_prd + step, start, step) ELSE end_prd

\* the end of the first window: 00:00:00 UTC of the day of tr.start, advanced
FirstEndMutDayStart(tr, step) == DayStart(tr.start)

FirstEnd(tr, step) == AlignEnd(DayStart(tr.start), tr.start, step)

NextEndMutTwoSteps(end_prd, step) == end_prd + 2 * step

NextEndMutStays(end_prd, step) == end_prd

\* end_prd += HOURSEC * 24, end_prd += HOURSEC * window_increment
NextEnd(end_prd, step) == end_prd + step

EmitMoreMutNoCap(end_prd, tr, num_results, calc_num_res) == end_prd < tr.end

\* the while condition of the emission loops
EmitMore(end_prd, tr, num_results, calc_num_res) ==
    end_prd < tr.end /\ num_results < calc_num_res

\* the fold of obs_db_query_temperatures_max_min_in_window
MaxMinFoldMutKeepFirst(max_min_val, val, max_min_mode) ==
    IF max_min_val = NAN THEN val ELSE max_min_val

MaxMinFold(max_min_val, val, max_min_mode) ==
    IF max_min_val = NAN THEN val
    ELSE IF max_min_mode = OBS_DB_MAX_MODE /\ val > max_min_val THEN val
    ELSE IF max_min_mode = OBS_DB_MIN_MODE /\ val < max_min_val THEN val
    ELSE max_min_val

RECURSIVE MaxMinLoop(_, _, _, _, _, _, _)
\* the for loop of obs_db_query_temperatures_max_min_in_window: next is the
\* index of the row looked at, last_start the index *last_start points to
MaxMinLoop(hourlies, next, last_start, start, end, max_min_mode, max_min_val) ==
    IF next > Len(hourlies)
    THEN [val |-> max_min_val, last_start |-> last_start]
    ELSE LET vt == hourlies[next].valid_time
             val == hourlies[next].t_f
         IN  IF vt < start
             THEN MaxMinLoop(hourlies, next + 1, last_start + 1, start, end,
                             max_min_mode, max_min_val)
             ELSE IF vt > end
             THEN [val |-> max_min_val, last_start |-> last_start]
             ELSE MaxMinLoop(hourlies, next + 1, last_start, start, end,
                             max_min_mode, MaxMinFold(max_min_val, val, max_min_mode))

MaxMinInWindowMutSkipsWindow(hourlies, last_start, start, end, max_min_mode) ==
    [val |-> MaxMinLoop(hourlies, last_start, last_start, start, end, max_min_mode,
                        NAN).val,
     last_start |-> MaxMinLoop(hourlies, last_start, last_start, end + 1, end,
                               max_min_mode, NAN).last_start]

\* obs_db_query_temperatures_max_min_in_window
MaxMinInWindowMutFromZero(hourlies, last_start, start, end, max_min_mode) ==
    MaxMinLoop(hourlies, last_start, last_start, start, end, max_min_mode, 0)

obs_db_query_temperatures_max_min_in_window(hourlies, last_start, start, end, max_min_mode) ==
    MaxMinLoop(hourlies, last_start, last_start, start, end, max_min_mode, NAN)

TemperatureOb(vt, t) == [valid_time |-> vt, temperature_f |-> t]

RECURSIVE TemperatureLoop(_, _, _, _, _, _, _, _)
\* the emission loop of obs_db_query_temperatures
TemperatureLoop(hourlies, tr, window_length, max_min_mode, calc_num_res, end_prd, last_start, results) ==
    IF EmitMore(end_prd, tr, Len(results), calc_num_res)
    THEN LET str_prd == end_prd - HOURSEC * window_length
             m == obs_db_query_temperatures_max_min_in_window(
                      hourlies, last_start, str_prd, end_prd, max_min_mode)
         IN  TemperatureLoop(hourlies, tr, window_length, max_min_mode, calc_num_res,
                             NextEnd(end_prd, HOURSEC * 24), m.last_start,
                             Append(results, TemperatureOb(end_prd, m.val)))
    ELSE results

\* the ERR_RETURN exit of obs_db_query_temperatures and of
\* obs_db_query_precipitation: *num_results = 0, *results = 0, return -1
ErrReturnMutLeavesOutput == [rc |-> -1, results |-> <<TemperatureOb(0, 0)>>]

ERR_RETURN == [rc |-> -1, results |-> <<>>]

TemperatureFirstEndMutUsesWindowEnd(tr, window_end) ==
    FirstEnd(tr, HOURSEC * 24) + HOURSEC * window_end

\* obs_db_query_temperatures: the first end_prd; window_end is not read
TemperatureFirstEnd(tr, window_end) == FirstEnd(tr, HOURSEC * 24)

\* obs_db_query_temperatures: [rc, results]
obs_db_query_temperatures(db, max_min_mode, site, tr, window_end, window_length) ==
    LET hourlies == ScanRows(db, site, tr)
        calc_num_res == obs_db_query_calculate_num_results(tr, 24)
    IN  IF calc_num_res = -1
        THEN ERR_RETURN
        ELSE [rc |-> 0,
              results |-> TemperatureLoop(hourlies, tr, window_length, max_min_mode,
                                          calc_num_res, TemperatureFirstEnd(tr, window_end),
                                          1, <<>>)]

RECURSIVE PrecipLoop(_, _, _, _, _)
\* the for loop of obs_db_query_precipitation_accumulation_in_window;
\* a is [sum_val, last_hour, last_hour_val, trace_flag, last_start]
PrecipLoop(hourlies, next, start, end, a) ==
    IF next > Len(hourlies) THEN a
    ELSE LET vt == hourlies[next].valid_time
             val == hourlies[next].precip_in_1hr
         IN  IF vt < start
             THEN PrecipLoop(hourlies, next + 1, start, end,
                             [a EXCEPT !.last_start = @ + 1])
             ELSE IF vt > end THEN a
             ELSE IF val < 10 /\ val > 0
             THEN PrecipLoop(hourlies, next + 1, start, end,
                             [a EXCEPT !.trace_flag = TRUE])
             ELSE PrecipLoop(hourlies, next + 1, start, end,
                             [a EXCEPT !.sum_val = IF UtcHour(vt) # a.last_hour
                                                   THEN @ + a.last_hour_val ELSE @,
                                       !.last_hour = UtcHour(vt),
                                       !.last_hour_val = val])

\* what the reducer returns for a trace flag and a sum
TraceResultMutSumOnly(trace_flag, sum_val) == sum_val

TraceResult(trace_flag, sum_val) ==
    IF trace_flag /\ sum_val < 5 THEN 1 ELSE sum_val

\* obs_db_query_precipitation_accumulation_in_window
obs_db_query_precipitation_accumulation_in_window(hourlies, last_start, start, end) ==
    LET a == PrecipLoop(hourlies, last_start, start, end,
                        [sum_val |-> 0, last_hour |-> -1, last_hour_val |-> 0,
                         trace_flag |-> FALSE, last_start |-> last_start])
        sum_val == a.sum_val + a.last_hour_val
    IN  [val |-> TraceResult(a.trace_flag, sum_val),
         last_start |-> a.last_start]

PrecipitationOb(vt, p) == [valid_time |-> vt, precip_in |-> p]

RECURSIVE PrecipitationLoop(_, _, _, _, _, _, _, _)
\* the emission loop of obs_db_query_precipitation
PrecipitationLoop(hourlies, tr, window_length, window_increment, calc_num_res, end_prd, last_start, results) ==
    IF EmitMore(end_prd, tr, Len(results), calc_num_res)
    THEN LET str_prd == end_prd - HOURSEC * window_length
             m == obs_db_query_precipitation_accumulation_in_window(
                      hourlies, last_start, str_prd, end_prd)
         IN  PrecipitationLoop(hourlies, tr, window_length, window_increment,
                               calc_num_res, NextEnd(end_prd, HOURSEC * window_increment),
                               m.last_start,
                               Append(results, PrecipitationOb(end_prd, m.val)))
    ELSE results

\* obs_db_query_precipitation: [rc, results]
obs_db_query_precipitation(db, site, tr, window_length, window_increment) ==
    LET hourlies == ScanRows(db, site, tr)
        calc_num_res == obs_db_query_calculate_num_results(tr, window_increment)
    IN  IF calc_num_res = -1
        THEN ERR_RETURN
        ELSE [rc |-> 0,
              results |-> PrecipitationLoop(hourlies, tr, window_length,
                                            window_increment, calc_num_res,
                                            FirstEnd(tr, HOURSEC * window_increment),
                                            1, <<>>)]

(***************************************************************************)
(* The program state.                                                      *)
(***************************************************************************)
VARIABLES
    store,    \* the obs table as the connection sees it
    tx_base,  \* the obs table as it was when the open transaction began
    in_tx,    \* is a transaction open
    st,       \* struct CsvToSqliteState of the running obs_download
    pc,       \* where the program is: "idle", "download" (a missing range is
              \* about to be fetched), "stream" (inside curl_easy_perform)
    q,        \* the arguments of the running (or last) call
    inv,      \* what obs_db_have_inventory returned to it
    mi,       \* the index of the missing range being fetched
    results,  \* *results of the last call that returned
    rc,       \* its return code
    ndl,      \* the number of obs_download calls the running query has made
    log,      \* the queries that returned, each with its arguments and outcome
    env,      \* the upstream: an adversarial one or an archive of hourly rows
    pos,      \* the number of the next event of the response body
    frows,    \* the number of row events of the response body so far
    dl,       \* the running (or last) obs_download: the table at its entry,
              \* the rows obs_db_insert stored for it, its return code
    curl,     \* the store's curl member and what libcurl has been asked so far
    now,      \* the clock, as time(0) reads it
    agg       \* the locals of the running obs_db_query_temperatures or
              \* obs_db_query_precipitation: hourlies, end_prd, and last_start
              \* as the index of the row it points to

vars == <<store, tx_base, in_tx, st, pc, q, inv, mi, results, rc, ndl, log, env,
          pos, frows, dl, curl, now, agg>>

\* 2021-01-01T00:00:00Z
D0 == 18628 * DAYSEC

NoQuery ==
    [kind |-> "none", site |-> <<>>, site_buf |-> <<>>, tr |-> TimeRange(0, 0),
     window_end |-> 0, window_length |-> 0, window_increment |-> 0, dbfail |-> 0,
     aggfail |-> "none", pre |-> {}]

Query(kind, site, tr, window_end, window_length, window_increment, dbfail) ==
    [kind |-> kind, site |-> site,
     site_buf |-> obs_util_strcpy_to_lowercase(SiteBufSize, site),
     tr |-> tr, window_end |-> window_end, window_length |-> window_length,
     window_increment |-> window_increment, dbfail |-> dbfail,
     aggfail |-> "none", pre |-> {}]

NoInventory == [rc |-> 0, missing |-> <<>>, overflow |-> FALSE]

NoDownload ==
    [pre |-> {}, inserted |-> {}, insert_failed |-> FALSE, comment_row |-> FALSE, skipped |-> FALSE,
     rc |-> 0, returned |-> FALSE]

FreeEnv == [feed |-> "free", from |-> 0, to |-> 0, breaks |-> TRUE]

\* an upstream holding one row per whole hour from..to, t_f the hour of day
Archive(from, to) == [feed |-> "archive", from |-> from, to |-> to, breaks |-> FALSE]

\* the 48 hourly rows of 2021-01-01 and 2021-01-02
Archive48 == Archive(D0, D0 + 47 * HOURSEC)

\* the hourly rows from 2020-12-31T00Z to 2021-01-03T00Z
Archive73 == Archive(D0 - DAYSEC, D0 + 2 * DAYSEC)

\* the hourly rows from 2021-01-02T01Z to 2021-01-02T23Z: an upstream that
\* holds nothing of 2020-12-31 and 2021-01-01
ArchiveDay2 == Archive(D0 + DAYSEC + HOURSEC, D0 + 47 * HOURSEC)

\* the 48 hourly rows again, behind a connection that may break at any point
\* of any transfer
ArchiveBreaking == [Archive48 EXCEPT !.breaks = TRUE]

Envs == {FreeEnv, Archive48, Archive73, ArchiveDay2, ArchiveBreaking}

\* no aggregation is running
NoLocals == [hourlies |-> <<>>, end_prd |-> 0, last_start |-> 1]

InitCommon ==
    /\ agg = NoLocals
    /\ tx_base = {}
    /\ in_tx = FALSE
    /\ st = ErrCsvState
    /\ q = NoQuery
    /\ inv = NoInventory
    /\ mi = 0
    /\ results = <<>>
    /\ rc = 0
    /\ ndl = 0
    /\ log = <<>>
    /\ pos = 0
    /\ frows = 0
    /\ dl = NoDownload
    /\ curl = NoCurl

(***************************************************************************)
(* The response body, as the events libcsv makes of it.                    *)
(***************************************************************************)
ColEvent(txt) == [type |-> "col", txt |-> txt]
RowEvent == [type |-> "row", txt |-> NullCell]

\* the whole hours an archive holds within the requested range
ArchiveFirstHour(tr) ==
    LET lo == IF tr.start > env.from THEN tr.start ELSE env.from
    IN  ((lo + HOURSEC - 1) \div HOURSEC) * HOURSEC

ArchiveLastHour(tr) ==
    LET hi == IF tr.end < env.to THEN tr.end ELSE env.to
    IN  (hi \div HOURSEC) * HOURSEC

ArchiveRowCount(tr) ==
    IF ArchiveLastHour(tr) < ArchiveFirstHour(tr) THEN 0
    ELSE (ArchiveLastHour(tr) - ArchiveFirstHour(tr)) \div HOURSEC + 1

\* a comment line, the header, the units line, then five events per hour:
\* Station_ID, Date_Time, air_temp_set_1, an empty precip_accum_one_hour_set_1
ArchiveLen(tr) == 12 + 5 * ArchiveRowCount(tr)

ArchiveEvent(tr, k) ==
    IF k <= 12
    THEN <<ColEvent(CommentCell), RowEvent,
           ColEvent(JunkCell), ColEvent(HdrCell({"Date_Time"})),
           ColEvent(HdrCell({"air_temp_set_1"})),
           ColEvent(HdrCell({"precip_accum_one_hour_set_1"})), RowEvent,
           ColEvent(NullCell), ColEvent(NullCell), ColEvent(JunkCell),
           ColEvent(JunkCell), RowEvent>>[k]
    ELSE LET j == (k - 13) \div 5
             h == ArchiveFirstHour(tr) + j * HOURSEC
         IN  <<ColEvent(JunkCell), ColEvent(TimeCell(h)),
               ColEvent(NumCell(UtcHour(h) * 1000)), ColEvent(NullCell),
               RowEvent>>[((k - 13) % 5) + 1]

\* the cells of an adversarial body.  A header text in a data row and a
\* number or a time in the header row are handled as any other text is.
FreeT1 == DAYSEC + HOURSEC
FreeT2 == DAYSEC + 2 * HOURSEC
HeaderCells ==
    {NullCell, CommentCell, JunkCell, HdrCell({"Date_Time"}),
     HdrCell({"air_temp_set_1"}), HdrCell({"precip_accum_one_hour_set_1"})}
DataCells ==
    {NullCell, CommentCell, JunkCell, NumCell(5000), TimeCell(FreeT1), TimeCell(FreeT2)}

\* the range obs_download is fetching
FetchRange == inv.missing[mi]

\* the cells the next col_callback may be called with
NextCells ==
    IF env.feed = "archive"
    THEN IF pos <= ArchiveLen(FetchRange) /\ ArchiveEvent(FetchRange, pos).type = "col"
         THEN {ArchiveEvent(FetchRange, pos).txt} ELSE {}
    ELSE IF frows < MaxFreeRows /\ st.col < MaxFreeCols
         THEN IF st.header_parsed THEN DataCells ELSE HeaderCells
         ELSE {}

\* may row_callback be called next
NextIsRow ==
    IF env.feed = "archive"
    THEN pos <= ArchiveLen(FetchRange) /\ ArchiveEvent(FetchRange, pos).type = "row"
    ELSE frows < MaxFreeRows /\ (st.col > 0 \/ st.error)

\* may the body end here
BodyMayEnd == env.feed = "free" \/ pos > ArchiveLen(FetchRange)

(***************************************************************************)
(* The public queries (obs_store.c) and obs_download (download.c).         *)
(***************************************************************************)
\* need_hourlies_tr
NeedHourliesMutDouble(tr, window_length) ==
    TimeRange(tr.start - 2 * HOURSEC * window_length, tr.end)

NeedHourlies(tr, window_length) ==
    TimeRange(tr.start - HOURSEC * window_length, tr.end)

\* what obs_db_have_inventory can hand back: a write outside trs is undefined
\* behaviour, after which the call may also report an error
InventoryOutcomes(db, site, tr, dbfail) ==
    LET r == obs_db_have_inventory(db, site, tr, dbfail)
    IN  IF r.overflow
        THEN {r, [rc |-> -1, missing |-> <<>>, overflow |-> TRUE],
                 [rc |-> 1, missing |-> <<>>, overflow |-> TRUE]}
        ELSE {r}

\* the call of obs_db_query_temperatures or obs_db_query_precipitation that
\* ends a query
Aggregate(db, c) ==
    IF c.aggfail # "none" THEN ERR_RETURN
    ELSE IF c.kind = "precip"
    THEN obs_db_query_precipitation(db, c.site_buf, c.tr, c.window_length,
                                    c.window_increment)
    ELSE obs_db_query_temperatures(db,
             IF c.kind = "max_t" THEN OBS_DB_MAX_MODE ELSE OBS_DB_MIN_MODE,
             c.site_buf, c.tr, c.window_end, c.window_length)

\* the query returns code with *results = res after n calls of obs_download
Return(c, code, res, n) ==
    /\ results' = res
    /\ rc' = code
    /\ log' = Append(log, [q |-> c, rc |-> code, results |-> res, ndl |-> n])
    /\ pc' = "idle"

\* what may go wrong in the aggregation of a query: nothing, a sqlite error
\* while the hourly rows are counted or read, or calloc returning null
AggFails == IF env.breaks THEN {"none", "scan", "alloc"} ELSE {"none"}

\* the aggregation of query c ends it after n calls of obs_download
AggregateAndReturn(db, c, n) ==
    \E f \in AggFails :
        LET cf == [c EXCEPT !.aggfail = f]
        IN  Return(cf, Aggregate(db, cf).rc, Aggregate(db, cf).results, n)

\* the queries an upstream is asked in the model
S1Range == TimeRange(D0, D0 + 2 * DAYSEC)
FreeRange == TimeRange(DAYSEC, DAYSEC + 3 * HOURSEC)
\* an adversarial upstream is asked for precipitation, an archive for any
QueryKinds == IF env.feed = "free" THEN {"precip"} ELSE {"max_t", "min_t", "precip"}
QuerySites == IF env.feed = "free" THEN {kden} ELSE {kden, KDEN}
QueryRanges == IF env.feed = "free" THEN {FreeRange} ELSE {S1Range}
QueryLengths == IF env.feed = "free" THEN {1} ELSE {24}
QueryIncrements == IF env.feed = "free" THEN {1} ELSE {0, 24}
QueryDbFails == IF env.feed = "free" THEN {-1, 0} ELSE {0}
\* an upstream whose transfers may fail is asked one query, an archive
\* MaxQueries
QueryBudget == IF env.breaks THEN 1 ELSE MaxQueries

\* obs_store_query_t and obs_query_precipitation up to the first obs_download,
\* or to their return when nothing is fetched
QueryEnter(k) ==
    LET c == [k EXCEPT !.pre = store]
    IN
    /\ pc = "idle"
    /\ Len(log) < QueryBudget
    /\ StrcpyFits(SiteBufSize, c.site)
    /\ c.tr.start < c.tr.end
    /\ c.window_end <= 24
    /\ \E r \in InventoryOutcomes(store, c.site_buf,
                                  NeedHourlies(c.tr, c.window_length), c.dbfail) :
         /\ inv' = r
         /\ q' = c
         /\ ndl' = 0
         /\ IF r.rc < 0
            THEN /\ Return(c, -1, <<>>, 0)
                 /\ mi' = 0
            ELSE IF r.rc = 1
            THEN /\ AggregateAndReturn(store, c, 0)
                 /\ mi' = 0
            ELSE /\ pc' = "download"
                 /\ mi' = 1
                 /\ results' = <<>>
                 /\ rc' = 0
                 /\ log' = log
    /\ UNCHANGED <<store, tx_base, in_tx, st, env, curl, now, pos, frows, dl, agg>>

obs_query_max_t ==
    \E site \in QuerySites, tr \in QueryRanges, wl \in QueryLengths,
       dbfail \in QueryDbFails :
        /\ "max_t" \in QueryKinds
        /\ QueryEnter(Query("max_t", site, tr, 0, wl, 24, dbfail))

obs_query_min_t ==
    \E site \in QuerySites, tr \in QueryRanges, wl \in QueryLengths,
       dbfail \in QueryDbFails :
        /\ "min_t" \in QueryKinds
        /\ QueryEnter(Query("min_t", site, tr, 0, wl, 24, dbfail))

obs_query_precipitation ==
    \E site \in QuerySites, tr \in QueryRanges, wl \in QueryLengths,
       wi \in QueryIncrements, dbfail \in QueryDbFails :
        QueryEnter(Query("precip", site, tr, 0, wl, wi, dbfail))

\* obs_download from its entry to the call of curl_easy_perform
obs_download_begin ==
    /\ pc = "download"
    /\ in_tx' = TRUE
    /\ tx_base' = store
    /\ st' = InitCsvState(q.site_buf)
    /\ pc' = "stream"
    /\ pos' = 1
    /\ frows' = 0
    /\ ndl' = ndl + 1
    /\ dl' = [NoDownload EXCEPT !.pre = store]
    /\ curl' = obs_download_init_check_curl(curl, "ok").curl
    /\ UNCHANGED <<store, q, inv, mi, results, rc, log, env, now, agg>>

\* obs_download when one of its set-up steps fails: it returns -1 and the
\* query gives up.  A failed BEGIN or prepare ends in ROLLBACK, a failed
\* csv_init or curl set-up in the COMMIT of an empty transaction.
obs_download_init_fails ==
    /\ pc = "download"
    /\ env.breaks
    /\ in_tx' = FALSE
    /\ tx_base' = store
    /\ \E s \in {ErrCsvState, InitCsvState(q.site_buf)} : st' = s
    /\ \E c \in {curl} \cup {obs_download_init_check_curl(curl, how).curl :
                                 how \in CurlSetups} : curl' = c
    /\ ndl' = ndl + 1
    /\ dl' = [NoDownload EXCEPT !.pre = store, !.rc = -1, !.returned = TRUE]
    /\ Return(q, -1, <<>>, ndl + 1)
    /\ UNCHANGED <<store, q, inv, mi, env, now, pos, frows, agg>>

\* libcsv calls col_callback with the next cell of the body
ColCallback ==
    /\ pc = "stream"
    /\ \E txt \in NextCells :
         /\ st' = col_callback(txt, st)
         /\ dl' = IF ~st.header_parsed /\ txt.kind = "comment"
                  THEN [dl EXCEPT !.comment_row = TRUE] ELSE dl
    /\ pos' = IF env.feed = "archive" THEN pos + 1 ELSE pos
    /\ UNCHANGED <<store, tx_base, in_tx, pc, q, inv, mi, results, rc, ndl, log,
                   env, curl, now, frows, agg>>

\* a data row the parser has found no temperature or no time for
BadTemperatureOrTime(s) ==
    s.header_parsed /\ (s.t_f = NAN \/ s.valid_time = 0)

\* libcsv calls row_callback at the end of a line
RowCallback ==
    /\ pc = "stream"
    /\ NextIsRow
    /\ \E insert_ok \in IF env.feed = "free" /\ RowIsInserted(st)
                        THEN BOOLEAN ELSE {TRUE} :
         /\ store' = row_callback_db(st, store, insert_ok)
         /\ dl' = IF RowIsInserted(st) /\ insert_ok
                  THEN [dl EXCEPT !.inserted =
                           @ \cup {Row(st.site, st.valid_time, st.t_f, st.p_in)}]
                  ELSE IF RowIsInserted(st)
                  THEN [dl EXCEPT !.insert_failed = TRUE]
                  ELSE IF BadTemperatureOrTime(st)
                  THEN [dl EXCEPT !.skipped = TRUE]
                  ELSE [dl EXCEPT !.comment_row = FALSE]
    /\ st' = row_callback_state(st)
    /\ pos' = IF env.feed = "archive" THEN pos + 1 ELSE pos
    /\ frows' = frows + 1
    /\ UNCHANGED <<tx_base, in_tx, pc, q, inv, mi, results, rc, ndl, log, env, curl, now, agg>>

\* the table obs_download leaves: obs_download_finalize_csv_state
Finalized == obs_db_finish_transaction(store, tx_base, FinalizeAction(st))

\* curl_easy_perform returns CURLE_OK: obs_download returns 0, and the query
\* goes on to the next missing range or to the aggregation
curl_easy_perform_ok ==
    /\ pc = "stream"
    /\ BodyMayEnd
    /\ store' = Finalized
    /\ in_tx' = FALSE
    /\ dl' = [dl EXCEPT !.rc = 0, !.returned = TRUE]
    /\ IF mi < Len(inv.missing)
       THEN /\ mi' = mi + 1
            /\ pc' = "download"
            /\ UNCHANGED <<results, rc, log, agg>>
       ELSE /\ mi' = mi
            /\ AggregateAndReturn(Finalized, q, ndl)
    /\ UNCHANGED <<tx_base, st, q, inv, ndl, env, curl, now, pos, frows, agg>>

\* curl_easy_perform returns an error (a transfer error, a status that is not
\* 2xx, or csv_parse consuming less than it was given): obs_download returns -1
PerformFailsMutQueryGoesOn ==
    /\ pc = "stream"
    /\ env.breaks
    /\ store' = Finalized
    /\ in_tx' = FALSE
    /\ dl' = [dl EXCEPT !.rc = -1, !.returned = TRUE]
    /\ IF mi < Len(inv.missing)
       THEN /\ mi' = mi + 1
            /\ pc' = "download"
            /\ UNCHANGED <<results, rc, log, agg>>
       ELSE /\ mi' = mi
            /\ Return(q, Aggregate(Finalized, q).rc, Aggregate(Finalized, q).results, ndl)
    /\ UNCHANGED <<tx_base, st, q, inv, ndl, env, curl, now, pos, frows, agg>>

curl_easy_perform_fails ==
    /\ pc = "stream"
    /\ env.breaks
    /\ store' = Finalized
    /\ in_tx' = FALSE
    /\ dl' = [dl EXCEPT !.rc = -1, !.returned = TRUE]
    /\ Return(q, -1, <<>>, ndl)
    /\ UNCHANGED <<tx_base, st, q, inv, mi, ndl, env, curl, now, pos, frows, agg>>

\* the tables obs_open may find: none yet, or, before the breaking archive,
\* one of an earlier run with two rows in the scan range, which leave a gap
\* before, between and after them
OpenStores(e) ==
    IF e = ArchiveBreaking
    THEN {{Row(kden, D0 + 1800, 0, 0), Row(kden, D0 + DAYSEC + 1800, 0, 0)}}
    ELSE {{}}

\* the clock of the runs that never read it
Today == D0 + 3 * DAYSEC

Init ==
    /\ env \in Envs
    /\ now = Today
    /\ store \in OpenStores(env)
    /\ pc = "idle"
    /\ InitCommon

Next ==
    \/ obs_query_max_t
    \/ obs_query_min_t
    \/ obs_query_precipitation
    \/ obs_download_begin
    \/ obs_download_init_fails
    \/ ColCallback
    \/ RowCallback
    \/ curl_easy_perform_ok
    \/ curl_easy_perform_fails

Spec == Init /\ [][Next]_vars

(***************************************************************************)
(* Properties of the ingest.                                               *)
(***************************************************************************)
HasKey(db, site, vt) == \E r \in db : r.site = site /\ r.valid_time = vt

\* C1: whenever obs_download fails, the transaction is rolled back: the rows
\* stored after the call are the rows stored before it.
C1_FailedDownloadLeavesStore ==
    (dl.returned /\ dl.rc < 0) => store = dl.pre

\* C2: whenever obs_download returns 0 the transaction was committed: every
\* row it inserted is in the store under (site, valid_time) afterwards.
C2_SuccessKeepsInsertedRows ==
    (dl.returned /\ dl.rc = 0) =>
        \A r \in dl.inserted : HasKey(store, r.site, r.valid_time)

\* the rows an archive delivers for the hours from..to
HourlyRows(site, from, to) ==
    {Row(site, from + h * HOURSEC, UtcHour(from + h * HOURSEC) * 1000, 0) :
        h \in 0..((to - from) \div HOURSEC)}

\* the 48 hourly rows of 2021-01-01 and 2021-01-02, t_f the hour of day
S1Rows == HourlyRows(kden, Archive48.from, Archive48.to)

\* the hourly rows of the whole scan range of the query of S1Range
S1ScanRows == HourlyRows(kden, Archive73.from, Archive73.to)

\* a returned obs_query_max_t(site, S1Range, window_end 0, window_length 24)
IsS1MaxT(e) ==
    /\ e.q.kind = "max_t"
    /\ e.q.site_buf = kden
    /\ e.q.tr = S1Range
    /\ e.q.window_length = 24

\* the j-th returned query repeats an earlier successful one, and the table
\* held rows at its entry
IsRepeatOver(j, rows) ==
    /\ IsS1MaxT(log[j])
    /\ log[j].q.pre = rows
    /\ \E i \in 1..(j - 1) : IsS1MaxT(log[i]) /\ log[i].rc = 0

SameAsEarlier(j) ==
    \A i \in 1..(j - 1) :
        (IsS1MaxT(log[i]) /\ log[i].rc = 0) => log[j].results = log[i].results

\* C8 as stated: a repeat of the query of S1Range over a table holding the 48
\* hourly rows delivered for the first one calls obs_download zero times and
\* returns the results of the first one.
C8_RepeatOver48MakesNoDownload ==
    \A j \in 1..Len(log) :
        IsRepeatOver(j, S1Rows) =>
            /\ log[j].ndl = 0
            /\ log[j].rc = 0
            /\ SameAsEarlier(j)

\* C8: a repeat of the query of S1Range over a table holding the hourly rows
\* of its whole scan range, 2020-12-31T00:00Z to 2021-01-03T00:00Z, calls
\* obs_download zero times and returns the results of the first one.
C8_RepeatOverScanRangeMakesNoDownload ==
    \A j \in 1..Len(log) :
        IsRepeatOver(j, S1ScanRows) =>
            /\ log[j].ndl = 0
            /\ log[j].rc = 0
            /\ SameAsEarlier(j)

\* the first query fetched the scan range, the second fetched nothing
C8_Witness ==
    /\ Len(log) = 2
    /\ IsRepeatOver(2, S1ScanRows)
    /\ log[1].q.pre = {}
    /\ log[1].ndl = 1
    /\ log[2].ndl = 0
    /\ Len(log[2].results) = 2

\* obs_query_max_t over S1Range has just returned, and the table it
\* aggregated holds exactly the 48 rows
S1MaxTOver48 ==
    /\ pc = "idle"
    /\ Len(log) > 0
    /\ IsS1MaxT(log[Len(log)])
    /\ store = S1Rows

kslc == <<107, 115, 108, 99>>

RowsAt(site, times) == {Row(site, t, 0, 0) : t \in times}

\* valid times 4000 s, 4001 s and 1 s apart
InvPoints == {-4000, 1, 4001, 8002, 8003, 12003}

\* n rows 5000 s apart
LongTimes(n) == {5000 * k : k \in 1..n}
LongLengths == (MaxMissingRanges - 1)..(MaxMissingRanges + CapMargin)

InvStores ==
    {RowsAt(kden, S) : S \in SUBSET InvPoints}
        \cup {RowsAt(kden, S) \cup RowsAt(kslc, {4001}) : S \in {{}, {1}, {1, 8002}}}
        \cup {RowsAt(kden, LongTimes(n)) : n \in LongLengths}

InvRanges ==
    {TimeRange(s, e) : s \in {-8001, -4000, -3999, 1, 4001},
                       e \in {4001, 8003, 12003, 16003, 16004}}
        \cup {TimeRange(s, 5000 * n + d) : s \in {999, 1000}, n \in LongLengths,
                                           d \in {4000, 4001}}

InvDbFails == {-1, 0, 1, 2, 3}

InitInv ==
    /\ store \in InvStores
    /\ env = FreeEnv
    /\ now = Today
    /\ pc = "inventory"
    /\ InitCommon

\* a call of obs_db_have_inventory
HaveInventory ==
    /\ pc = "inventory"
    /\ \E tr \in InvRanges, dbfail \in InvDbFails :
         /\ tr.start < tr.end
         /\ q' = Query("inventory", kden, tr, 0, 0, 0, dbfail)
         /\ \E r \in InventoryOutcomes(store, kden, tr, dbfail) : inv' = r
    /\ pc' = "inventory_done"
    /\ UNCHANGED <<store, tx_base, in_tx, st, mi, results, rc, ndl, log, env, curl, now, pos,
                   frows, dl, agg>>

NextInv == HaveInventory

SpecInv == InitInv /\ [][NextInv]_vars

(***************************************************************************)
(* Properties of obs_db_have_inventory.                                    *)
(***************************************************************************)
InvDone == pc = "inventory_done"

\* the valid times of the site's rows in the range of the call
InvTimes == {r.valid_time : r \in RowsInRange(store, q.site_buf, q.tr)}

\* the row that follows a in ascending order
Succ(T, a) == MinOf({c \in T : c > a})

\* the gaps of the rule: leading, between consecutive rows, trailing
RuleGaps(T, tr) ==
    LET first == MinOf(T)
        last == CHOOSE x \in T : \A y \in T : y <= x
    IN  (IF first - tr.start > GapSeconds THEN {TimeRange(tr.start, first)} ELSE {})
        \cup {TimeRange(a, Succ(T, a)) :
                 a \in {x \in T : x # last /\ Succ(T, x) - x > GapSeconds}}
        \cup (IF tr.end - last > GapSeconds THEN {TimeRange(last, tr.end)} ELSE {})

\* the same gaps as a list in ascending order of start
RuleList(T, tr) ==
    LET G == RuleGaps(T, tr)
        starts == SortAsc({g.start : g \in G})
    IN  [i \in 1..Len(starts) |-> CHOOSE g \in G : g.start = starts[i]]

\* two ranges share a time, their end points included
Overlap(a, b) == a.start <= b.end /\ b.start <= a.end

\* C3 as stated: the missing ranges are pairwise disjoint with their end
\* points included, each inside the requested range, in ascending start order.
C3_DisjointInclusive ==
    InvDone =>
        LET m == inv.missing IN
        /\ \A i, j \in 1..Len(m) : i < j => ~Overlap(m[i], m[j])
        /\ \A i \in 1..Len(m) : q.tr.start <= m[i].start /\ m[i].end <= q.tr.end
        /\ \A i, j \in 1..Len(m) : i < j => m[i].start < m[j].start

\* C3 as the code has it: the missing ranges are in strictly ascending start
\* order, each is a range start < end within the requested range (which it
\* may equal or touch), and two of them share at most an end point: a range
\* ends no later than the next one starts.
C3_AscendingTouching ==
    InvDone =>
        LET m == inv.missing IN
        /\ \A i \in 1..Len(m) :
             q.tr.start <= m[i].start /\ m[i].start < m[i].end /\ m[i].end <= q.tr.end
        /\ \A i, j \in 1..Len(m) :
             i < j => m[i].start < m[j].start /\ m[i].end <= m[j].start

\* two consecutive interior gaps meet at the row between them
C3_Witness ==
    /\ InvDone
    /\ Len(inv.missing) >= 3
    /\ inv.missing[2].end = inv.missing[3].start
    /\ inv.missing[1].start = q.tr.start

\* C4: when sqlite reports no error, the scan is not empty and the rule
\* gives fewer than 100 gaps, the call returns exactly the list of the rule:
\* leading gap, gaps between consecutive rows, trailing gap, each for a
\* spacing above 4000 s and for no other.
C4_MatchesRule ==
    (InvDone /\ q.dbfail = 0 /\ InvTimes # {}
        /\ Cardinality(RuleGaps(InvTimes, q.tr)) < MaxMissingRanges) =>
        /\ inv.missing = RuleList(InvTimes, q.tr)
        /\ inv.rc = IF RuleGaps(InvTimes, q.tr) = {} THEN 1 ELSE 0

\* a leading, an interior and a trailing gap next to a spacing of 4000 s
C4_Witness ==
    /\ InvDone
    /\ q.dbfail = 0
    /\ q.tr = TimeRange(-4000, 16004)
    /\ InvTimes = {1, 4001, 8002, 12003}
    /\ inv.missing = <<TimeRange(-4000, 1), TimeRange(4001, 8002),
                       TimeRange(8002, 12003), TimeRange(12003, 16004)>>

\* C5: when sqlite prepares the scan and the store holds no row of the site
\* in the range, the call returns 0 with one missing range, the range itself.
C5_EmptyScanWholeRange ==
    (InvDone /\ q.dbfail # -1 /\ InvTimes = {}) =>
        inv.rc = 0 /\ inv.missing = <<q.tr>>

\* the store holds rows, but none of the site in the range
C5_Witness ==
    /\ InvDone
    /\ q.dbfail = 0
    /\ InvTimes = {}
    /\ store # {}
    /\ inv.missing = <<q.tr>>

\* C6: the call returns 1 only with an empty list, 0 exactly when the list
\* has at least one range, -1 only when sqlite failed; and a scan whose rows
\* are at most 4000 s apart and at most 4000 s from both ends returns 1.
C6_StatusMatchesList ==
    InvDone =>
        /\ inv.rc \in {-1, 0, 1}
        /\ inv.rc = 1 => Len(inv.missing) = 0
        /\ inv.rc = 0 <=> Len(inv.missing) >= 1
        /\ inv.rc = -1 <=> q.dbfail = -1
        /\ (q.dbfail = 0 /\ InvTimes # {} /\ RuleGaps(InvTimes, q.tr) = {}) => inv.rc = 1

\* rows 4000 s apart, the first 4000 s after tr.start: complete
C6_Witness ==
    /\ InvDone
    /\ q.dbfail = 0
    /\ q.tr = TimeRange(-3999, 4001)
    /\ InvTimes = {1, 4001}
    /\ inv.rc = 1
    /\ inv.missing = <<>>

\* C7: the call never returns more than 100 ranges and never writes outside
\* trs; when the rule gives 100 gaps or more (and sqlite reports no error)
\* it returns the first 100 of them.
C7_AtMostHundred ==
    InvDone =>
        /\ ~inv.overflow
        /\ Len(inv.missing) <= MaxMissingRanges
        /\ (q.dbfail = 0 /\ InvTimes # {}
              /\ Cardinality(RuleGaps(InvTimes, q.tr)) >= MaxMissingRanges) =>
               inv.missing = SubSeq(RuleList(InvTimes, q.tr), 1, MaxMissingRanges)

\* a leading gap, 100 interior gaps and a trailing gap: 100 are returned
C7_Witness ==
    /\ InvDone
    /\ q.dbfail = 0
    /\ InvTimes # {}
    /\ Cardinality(RuleGaps(InvTimes, q.tr)) = MaxMissingRanges + 2
    /\ Len(inv.missing) = MaxMissingRanges
    /\ inv.missing[1].start = q.tr.start

(***************************************************************************)
(* obs_db_query_temperatures and obs_db_query_precipitation on their own:  *)
(* the table is drawn from a set of tables of a few rows around D0, the    *)
(* call from ranges that start on and off 00:00:00 UTC.                    *)
(***************************************************************************)
\* valid times before, on and after 00:00:00 UTC of 2021-01-01
AggTimes == {D0 - HOURSEC, D0, D0 + 1800, D0 + HOURSEC, D0 + DAYSEC}

\* one-hour amounts in thousandths of an inch: none, a trace, and a
\* measurable amount
AggPrecips == {0, 5, 100}

\* the rows stamped DOMAIN p, t_f the minutes of the day in thousandths of a
\* degree, precip_in_1hr as p gives it
AggRows(p) == {Row(kden, t, ((t % DAYSEC) \div 60) * 1000, p[t]) : t \in DOMAIN p}

\* the tables: any of the times, any of the amounts for the rows from D0 on
AggStores ==
    UNION {{AggRows(p) : p \in {f \in [S -> AggPrecips] :
                                   D0 - HOURSEC \in S => f[D0 - HOURSEC] = 100}} :
           S \in SUBSET AggTimes}

AggRanges ==
    {TimeRange(s, e) : s \in {D0, D0 + 1, D0 + HOURSEC},
                       e \in {D0 + 2 * HOURSEC, D0 + DAYSEC, D0 + 2 * DAYSEC,
                              D0 + 2 * DAYSEC + 1}}

AggLengths == {1, 24, 25}
AggIncrements == {0, 1, 24}
AggWindowEnds == {0, 12}

InitAgg ==
    /\ store \in AggStores
    /\ env = FreeEnv
    /\ now = Today
    /\ pc = "aggregate"
    /\ InitCommon

\* the call that ends a query, made with the arguments in c
AggregateCall(c) ==
    /\ pc = "aggregate"
    /\ c.tr.start < c.tr.end
    /\ q' = [c EXCEPT !.pre = store]
    /\ results' = Aggregate(store, c).results
    /\ rc' = Aggregate(store, c).rc
    /\ pc' = "aggregate_done"
    /\ UNCHANGED <<store, tx_base, in_tx, st, inv, mi, ndl, log, env, curl, now, pos, frows, dl, agg>>

\* a call of obs_db_query_temperatures
AggregateTemperatures ==
    \E kind \in {"max_t", "min_t"}, tr \in AggRanges, we \in AggWindowEnds,
       wl \in AggLengths :
        AggregateCall(Query(kind, kden, tr, we, wl, 24, 0))

\* a call of obs_db_query_precipitation
AggregatePrecipitation ==
    \E tr \in AggRanges, wl \in AggLengths, wi \in AggIncrements :
        AggregateCall(Query("precip", kden, tr, 0, wl, wi, 0))

NextAgg ==
    \/ AggregateTemperatures
    \/ AggregatePrecipitation

SpecAgg == InitAgg /\ [][NextAgg]_vars

(***************************************************************************)
(* Properties of the windowed aggregation.                                 *)
(***************************************************************************)
AggDone == pc = "aggregate_done" /\ rc = 0

\* the step between windows, in seconds
StepOf(c) == HOURSEC * (IF c.kind = "precip" THEN c.window_increment ELSE 24)

\* t is a whole number of steps after 00:00:00 UTC of the day of tr.start
OnStep(t, c) ==
    /\ t >= DayStart(c.tr.start)
    /\ (t - DayStart(c.tr.start)) % StepOf(c) = 0

HalfOpenWindowRows(db, site, e, window_length) ==
    {r \in db : /\ r.site = site
                /\ e - HOURSEC * window_length < r.valid_time
                /\ r.valid_time <= e}

\* the rows with window start and window end both taken in
ClosedWindowRows(db, site, e, window_length) ==
    {r \in db : /\ r.site = site
                /\ e - HOURSEC * window_length <= r.valid_time
                /\ r.valid_time <= e}

\* the greatest (max_t) or least (min_t) of a set of values, NAN of none
ExtremeOf(kind, vals) ==
    IF vals = {} THEN NAN
    ELSE IF kind = "max_t" THEN CHOOSE x \in vals : \A y \in vals : y <= x
    ELSE CHOOSE x \in vals : \A y \in vals : x <= y

\* C11: every temperature result is the maximum (minimum) of t_f over exactly
\* the stored rows of the site with e - window_length * 3600 < valid_time <= e,
\* rows before tr.start included.
C11_FoldOverHalfOpenWindow ==
    (AggDone /\ q.kind \in {"max_t", "min_t"}) =>
        \A i \in 1..Len(results) :
            results[i].temperature_f =
                ExtremeOf(q.kind,
                          {r.t_f : r \in HalfOpenWindowRows(store, q.site_buf,
                                                            results[i].valid_time,
                                                            q.window_length)})

(***************************************************************************)
(* Properties of the precipitation reducer.  The rows of a window are the  *)
(* rows the reducer is handed for it: the scanned rows from the window     *)
(* start to the window end.                                                *)
(***************************************************************************)
WindowRows(db, c, e) ==
    {r \in ClosedWindowRows(db, c.site_buf, e, c.window_length) :
        c.tr.start <= r.valid_time /\ r.valid_time <= c.tr.end}

\* a report of more than nothing and less than 0.01 in
IsTraceRow(r) == 0 < r.precip_in_1hr /\ r.precip_in_1hr < 10

\* two rows are stamped within the same hour of the same UTC day
SameUtcHour(r, s) == r.valid_time \div HOURSEC = s.valid_time \div HOURSEC

\* the non-trace rows that are the last of their UTC hour
LastOfHour(rows) ==
    {r \in rows : /\ ~IsTraceRow(r)
                  /\ \A s \in rows : (~IsTraceRow(s) /\ SameUtcHour(r, s))
                                        => s.valid_time <= r.valid_time}

RECURSIVE SumPrecip(_)
\* the plain sum of the amounts of a set of rows
SumPrecip(rows) ==
    IF rows = {} THEN 0
    ELSE LET r == CHOOSE x \in rows : TRUE
         IN  r.precip_in_1hr + SumPrecip(rows \ {r})

\* sum, or 0.001 for a trace with less than 0.005 in of sum
WithTrace(rows, sum) ==
    IF (\E r \in rows : IsTraceRow(r)) /\ sum < 5 THEN 1 ELSE sum

\* a precipitation call that succeeded
PrecipDone == AggDone /\ q.kind = "precip"

\* C13: when a window holds several non-trace rows of one UTC hour, only the
\* last of them counts: the accumulation is the sum of the last non-trace
\* values of the hours present.
C13_LastReportOfEachHour ==
    PrecipDone =>
        \A i \in 1..Len(results) :
            LET W == WindowRows(store, q, results[i].valid_time)
            IN  (\E r, s \in W : /\ r # s
                                  /\ ~IsTraceRow(r) /\ ~IsTraceRow(s)
                                  /\ SameUtcHour(r, s))
                => results[i].precip_in = WithTrace(W, SumPrecip(LastOfHour(W)))

\* C14: when a window holds at most one row per UTC hour, whatever hours
\* are missing in between, nothing is de-duplicated: the accumulation is the
\* plain sum of the values that are not trace values.
C14_OneRowPerHourIsPlainSum ==
    PrecipDone =>
        \A i \in 1..Len(results) :
            LET W == WindowRows(store, q, results[i].valid_time)
            IN  (\A r, s \in W : SameUtcHour(r, s) => r = s)
                => results[i].precip_in =
                       WithTrace(W, SumPrecip({r \in W : ~IsTraceRow(r)}))

\* the results of the same call over the table without its trace rows
WithoutTrace == Aggregate({r \in store : ~IsTraceRow(r)}, q).results

\* C15: a value v with 0 < v < 0.01 is never added to the sum and sets the
\* trace flag: the result of a window is 0.001 when it holds such a row and
\* its sum, which is what the window gives without its trace rows, is below
\* 0.005, and the sum otherwise.  A window of trace rows only gives 0.001; a
\* window without a trace row gives 0.001 only if that is its sum.
C15_TraceRule ==
    PrecipDone =>
        LET sums == WithoutTrace
        IN  \A i \in 1..Len(results) :
              LET W == WindowRows(store, q, results[i].valid_time)
              IN  /\ results[i].precip_in = WithTrace(W, sums[i].precip_in)
                  /\ (W # {} /\ \A r \in W : IsTraceRow(r)) => results[i].precip_in = 1
                  /\ ((\A r \in W : ~IsTraceRow(r)) /\ results[i].precip_in = 1)
                         => sums[i].precip_in = 1

\* one call with a window of a trace row alone, reported as 0.001, and a
\* window of a trace row and a measurable amount, reported as the amount
C15_Witness ==
    /\ PrecipDone
    /\ \E i \in 1..Len(results) :
          LET W == WindowRows(store, q, results[i].valid_time)
          IN  /\ W # {}
              /\ \A r \in W : IsTraceRow(r)
              /\ results[i].precip_in = 1
    /\ \E i \in 1..Len(results) :
          LET W == WindowRows(store, q, results[i].valid_time)
          IN  /\ \E r \in W : IsTraceRow(r)
              /\ \E r \in W : r.precip_in_1hr >= 10
              /\ results[i].precip_in >= 10

(***************************************************************************)
(* Properties of a whole query: what it returns when data are missing.     *)
(***************************************************************************)
\* the query last returned got through its inventory and all its downloads
FetchedAll ==
    /\ pc = "idle"
    /\ Len(log) > 0
    /\ inv.rc >= 0
    /\ ~(dl.returned /\ dl.rc < 0)
    /\ log[Len(log)].q.aggfail = "none"
    /\ q.kind = "precip" => q.window_increment > 0

\* the window ends of a query: the whole steps after 00:00:00 UTC of the day
\* of tr.start that lie in [tr.start, tr.end), at most as many as the
\* calculated number of results
WindowEnds(c) ==
    LET K == (c.tr.end - DayStart(c.tr.start)) \div StepOf(c)
        ends == {e \in {DayStart(c.tr.start) + k * StepOf(c) : k \in 0..K} :
                    c.tr.start <= e /\ e < c.tr.end}
        n == MinOf({Cardinality(ends),
                    (c.tr.end - c.tr.start + 1) \div StepOf(c)})
    IN  SubSeq(SortAsc(ends), 1, n)

\* the value of the i-th result
ValueOf(c, res) == IF c.kind = "precip" THEN res.precip_in ELSE res.temperature_f

\* C12: missing data is never an error.  A query whose inventory and
\* downloads all succeeded returns 0 and one result for each of its window
\* ends, and a window with no stored row from its start to its end has the
\* value NaN (temperatures) or 0.0 (precipitation).
C12_EmptyWindowIsEmitted ==
    FetchedAll =>
        /\ rc = 0
        /\ Len(results) = Len(WindowEnds(q))
        /\ \A i \in 1..Len(results) :
              /\ results[i].valid_time = WindowEnds(q)[i]
              /\ ClosedWindowRows(store, q.site_buf, results[i].valid_time,
                                  q.window_length) = {}
                  => ValueOf(q, results[i]) = IF q.kind = "precip" THEN 0 ELSE NAN

\* a temperature query fetched the rows the upstream has, the table holds
\* rows, and both of its windows are empty and reported as NaN
C12_Witness ==
    /\ FetchedAll
    /\ q.kind \in {"max_t", "min_t"}
    /\ log[Len(log)].ndl = 1
    /\ store # {}
    /\ Len(results) = 2
    /\ \A i \in 1..2 :
          /\ ClosedWindowRows(store, q.site_buf, results[i].valid_time,
                              q.window_length) = {}
          /\ results[i].temperature_f = NAN

\* the query last returned ended in a failed obs_download
FetchFailed ==
    /\ pc = "idle"
    /\ Len(log) > 0
    /\ log[Len(log)].ndl > 0
    /\ dl.returned
    /\ dl.rc < 0

\* C16: when obs_download fails for the i-th missing range the query returns
\* a negative code at once: it has called obs_download i times, it hands back
\* no result, and every row stored when that download began, the rows of
\* ranges 1..i-1 among them, is still stored under its key.
C16_FailedRangeEndsQuery ==
    FetchFailed =>
        /\ rc < 0
        /\ results = <<>>
        /\ log[Len(log)].ndl = mi
        /\ \A r \in dl.pre : HasKey(store, r.site, r.valid_time)

\* the second of three missing ranges failed after the first had added rows
C16_Witness ==
    /\ FetchFailed
    /\ Len(inv.missing) = 3
    /\ mi = 2
    /\ log[Len(log)].ndl = 2
    /\ Cardinality(dl.pre) > Cardinality(q.pre)
    /\ q.pre \subseteq store

\* the query last returned left by one of its failing exits: the inventory
\* failed, an obs_download failed, the hourly rows could not be read or a
\* calloc failed, or the number of results could not be calculated
FailingExit ==
    /\ pc = "idle"
    /\ Len(log) > 0
    /\ \/ inv.rc < 0
       \/ FetchFailed
       \/ log[Len(log)].q.aggfail # "none"
       \/ q.kind = "precip" /\ q.window_increment = 0

\* C17: on every failing exit of obs_query_max_t, obs_query_min_t and
\* obs_query_precipitation the return code is negative and nothing is handed
\* back: *results is null and *num_results is 0.
C17_FailureHandsBackNothing ==
    FailingExit => rc < 0 /\ results = <<>>

\* the hourly rows could not be read after a download had stored rows
C17_Witness ==
    /\ FailingExit
    /\ log[Len(log)].q.aggfail = "scan"
    /\ log[Len(log)].ndl > 0
    /\ store # {}
    /\ rc < 0
    /\ results = <<>>

\* C18: a failing insert is propagated.  When obs_db_insert has failed for a
\* row of a download, obs_download reports failure and its transaction is
\* rolled back: the table is what it was when the download began.
C18_FailedInsertRollsBack ==
    (dl.returned /\ dl.insert_failed) => (dl.rc < 0 /\ store = dl.pre)

\* the body ended within a data row right after its temperature cell or its
\* time cell had failed to parse
EndedInBadRow ==
    /\ st.header_parsed
    /\ st.error
    /\ \/ st.col = st.t_col + 1 /\ st.t_f = NAN
       \/ st.col = st.vt_col + 1 /\ st.valid_time = 0

\* C19: a per-row data error affects only its own row.  When a data row had
\* no usable temperature or time, whether its line was ended or the body
\* ended within it, and obs_download returned 0 with no insert failing, the
\* rows inserted before and after it are stored: nothing was rolled back.
C19_BadRowSkippedAlone ==
    (/\ dl.returned
     /\ dl.rc = 0
     /\ ~dl.insert_failed
     /\ dl.skipped \/ EndedInBadRow)
        => \A r \in dl.inserted : HasKey(store, r.site, r.valid_time)

\* row_callback is called for a data row with a time and a temperature and
\* no cell in error, and obs_db_insert does not fail
ValidRowEnds ==
    /\ frows' = frows + 1
    /\ st.header_parsed
    /\ ~st.error
    /\ st.valid_time # 0
    /\ st.t_f # NAN
    /\ dl'.insert_failed = dl.insert_failed

\* C20: a data row with a valid time and temperature whose precipitation
\* cell is empty (read as 0.0) or absent (never read: the row ends before
\* that column, or the header names none) is inserted with precip_in_1hr 0.0;
\* a row with a cell in error, as a non-numeric precipitation is, is not
\* inserted.
C20_MissingPrecipIsZero ==
    [][/\ (ValidRowEnds /\ st.p_in \in {0, NAN})
           => Row(st.site, st.valid_time, st.t_f, 0) \in store'
       /\ (frows' = frows + 1 /\ st.header_parsed /\ st.error) => store' = store]_vars

(***************************************************************************)
(* Comment lines and the header line of a response body.                   *)
(***************************************************************************)
\* row_callback is called
RowEnds == pc = "stream" /\ frows' = frows + 1

\* the header line of an archive: Date_Time, air_temp_set_1 and
\* precip_accum_one_hour_set_1 are its second, third and fourth cell
ArchiveHeaderResolved(s) == s.vt_col = 1 /\ s.t_col = 2 /\ s.p_col = 3

\* C21: before the header is parsed, a row with a cell beginning with '#'
\* is skipped: nothing is inserted and the parser still waits for the
\* header.  The first row without such a cell becomes the header: it
\* resolves the column indexes and nothing is inserted for it.  Once the
\* header is parsed, no step of the same download unparses it.
C21_CommentsThenHeader ==
    [][/\ RowEnds /\ ~st.header_parsed /\ dl.comment_row
           => ~st'.header_parsed /\ store' = store /\ dl'.inserted = dl.inserted
       /\ RowEnds /\ ~st.header_parsed /\ ~dl.comment_row
           => /\ st'.header_parsed /\ store' = store /\ dl'.inserted = dl.inserted
              /\ env.feed = "archive" => ArchiveHeaderResolved(st')
       /\ pc = "stream" /\ st.header_parsed => st'.header_parsed]_vars

\* a download has skipped a comment line, taken the next line as the header
\* and then stored a row
C21_Witness ==
    /\ pc = "stream"
    /\ st.header_parsed
    /\ dl.inserted # {}
    /\ env.feed = "archive"
    /\ ArchiveHeaderResolved(st)

(***************************************************************************)
(* A store from obs_connect to obs_close: rows are inserted, downloads set *)
(* up the HTTP client, and obs_close ends it.                              *)
(***************************************************************************)
\* the clock when the store is closed
Nows == {Today, Today + 1}

\* rows about as old as obs_db_close lets them be
LifeTimes == {TooOld(Today) - 1, TooOld(Today), TooOld(Today) + 1}

LifeRows ==
    {Row(kden, t, v, 0) : t \in LifeTimes, v \in {0, 1000}}
        \cup {Row(kslc, TooOld(Today), 0, 0)}

InitLife ==
    /\ store = {}
    /\ env = FreeEnv
    /\ now \in Nows
    /\ pc = "open"
    /\ InitCommon

\* row_callback hands a parsed row to obs_db_insert, which stores it
InsertRow ==
    /\ pc = "open"
    /\ \E r \in LifeRows :
         /\ st' = [InitCsvState(r.site) EXCEPT !.header_parsed = TRUE,
                      !.valid_time = r.valid_time, !.t_f = r.t_f,
                      !.p_in = r.precip_in_1hr]
         /\ store' = obs_db_insert(store, r.valid_time, r.site, r.t_f,
                                   r.precip_in_1hr)
    /\ UNCHANGED <<tx_base, in_tx, pc, q, inv, mi, results, rc, ndl, log, env, pos,
                   frows, dl, curl, now, agg>>

\* an obs_download gets its client from obs_download_init_check_curl
CheckCurl ==
    /\ pc = "open"
    /\ ndl < MaxSetups
    /\ \E how \in CurlSetups :
         /\ curl' = obs_download_init_check_curl(curl, how).curl
         /\ rc' = IF obs_download_init_check_curl(curl, how).ok THEN 0 ELSE -1
    /\ ndl' = ndl + 1
    /\ UNCHANGED <<store, tx_base, in_tx, st, pc, q, inv, mi, results, log, env, pos,
                   frows, dl, now, agg>>

HandleAfterCloseMutKeptOnError(db_rc) == IF db_rc = 0 THEN "closed" ELSE "open"

\* obs_close: *store = 0, whatever obs_db_close returned
HandleAfterClose(db_rc) == "closed"

\* obs_close on a store
obs_close ==
    /\ pc = "open"
    /\ \E how \in CloseOutcomes :
         /\ store' = obs_db_close(store, now, how).db
         /\ rc' = obs_db_close(store, now, how).rc
         /\ pc' = HandleAfterClose(obs_db_close(store, now, how).rc)
    /\ curl' = CloseCurl(curl)
    /\ q' = [NoQuery EXCEPT !.kind = "obs_close"]
    /\ UNCHANGED <<tx_base, in_tx, st, inv, mi, results, ndl, log, env, pos, frows,
                   dl, now, agg>>

ObsCloseNullMutReleasesAgain ==
    /\ pc = "closed"
    /\ q' = [NoQuery EXCEPT !.kind = "obs_close_null"]
    /\ curl' = CloseCurl(curl)
    /\ UNCHANGED <<store, tx_base, in_tx, st, pc, inv, mi, results, rc, ndl, log, env,
                   pos, frows, dl, now, agg>>

\* obs_close on the handle it has nulled (a null pointer takes the same
\* return): StopIf(!store || !(*store), return, ...)
obs_close_null ==
    /\ pc = "closed"
    /\ q' = [NoQuery EXCEPT !.kind = "obs_close_null"]
    /\ UNCHANGED <<store, tx_base, in_tx, st, pc, inv, mi, results, rc, ndl, log, env,
                   pos, frows, dl, curl, now, agg>>

NextLife ==
    \/ InsertRow
    \/ CheckCurl
    \/ obs_close
    \/ obs_close_null

SpecLife == InitLife /\ [][NextLife]_vars

\* C22: when obs_close ends without a store error, the table holds no row
\* of any site older than now - 555 * 86400, and every row that was stored
\* before the close and is not older than that is still stored, unchanged.
C22_RetentionOnClose ==
    [][pc = "open" /\ pc' = "closed" /\ rc' = 0
         => /\ \A r \in store' : r.valid_time >= now - 555 * 86400
            /\ \A r \in store : r.valid_time >= now - 555 * 86400 => r \in store'
            /\ store' \subseteq store]_vars

\* a store closed without error that has lost the row of one site and kept
\* a row of another that is exactly 555 days old
C22_Witness ==
    /\ pc = "closed"
    /\ rc = 0
    /\ st.header_parsed
    /\ st.site = kslc
    /\ st.valid_time < now - 555 * 86400
    /\ \E r \in store : r.site = kden /\ r.valid_time = now - 555 * 86400

\* C23: over the life of a store, whatever downloads were set up and however
\* the set-ups went, curl_global_init has succeeded at most once, at most one
\* handle was created and an open store that created one still holds it, and
\* a closed store has released every handle it created and has called
\* curl_global_cleanup once if curl_global_init was performed, never otherwise.
C23_OneClientPerStore ==
    /\ curl.global_inits <= 1
    /\ curl.easy_inits <= 1
    /\ pc = "open" /\ curl.easy_inits = 1 => curl.handle
    /\ pc = "closed" => /\ curl.easy_cleanups = curl.easy_inits
                        /\ curl.global_cleanups = curl.global_inits

(***************************************************************************)
(* obs_time_range_init, called on an object of any content.                *)
(***************************************************************************)
TrTimes == -2..MaxTrTime

InitTr ==
    /\ store = {}
    /\ env = FreeEnv
    /\ now = Today
    /\ pc = "time_range"
    /\ tx_base = {}
    /\ in_tx = FALSE
    /\ st = ErrCsvState
    /\ q = NoQuery
    /\ inv = NoInventory
    /\ mi = 0
    /\ \E a \in TrTimes, b \in TrTimes : results = <<TimeRange(a, b)>>
    /\ rc = 0
    /\ ndl = 0
    /\ log = <<>>
    /\ pos = 0
    /\ frows = 0
    /\ dl = NoDownload
    /\ curl = NoCurl
    /\ agg = NoLocals

\* a call of obs_time_range_init: q.tr holds start and end as given,
\* results the object, rc whether the object's address came back
TimeRangeInit ==
    /\ pc = "time_range"
    /\ \E start \in TrTimes, end \in TrTimes :
         /\ q' = [NoQuery EXCEPT !.kind = "time_range_init",
                                 !.tr = TimeRange(start, end)]
         /\ results' = <<obs_time_range_init(results[1], start, end).tr>>
         /\ rc' = IF obs_time_range_init(results[1], start, end).ret THEN 1 ELSE 0
    /\ UNCHANGED <<store, tx_base, in_tx, st, pc, inv, mi, ndl, log, env, pos, frows,
                   dl, curl, now, agg>>

NextTr == TimeRangeInit

SpecTr == InitTr /\ [][NextTr]_vars

\* C24: obs_time_range_init returns null exactly when start > end, and then
\* the object is zeroed; otherwise (start = end included) it returns the
\* object holding start and end as given, so a range it hands back has
\* start <= end.
C24_RejectsInverted ==
    q.kind = "time_range_init"
        => /\ rc = 0 <=> q.tr.start > q.tr.end
           /\ rc = 0 => results[1] = TimeRange(0, 0)
           /\ rc = 1 => /\ results[1] = TimeRange(q.tr.start, q.tr.end)
                        /\ results[1].start <= results[1].end

\* a range of one instant was accepted
C24_Witness ==
    /\ q.kind = "time_range_init"
    /\ q.tr.start = q.tr.end
    /\ q.tr.start # 0
    /\ rc = 1
    /\ results[1] = q.tr

\* obs_db_insert has stored a row other than the one before
InsertStep == pc = "open" /\ st' # st

\* the ranges a scan is asked for
ScanRanges ==
    {TimeRange(a, b) : a \in LifeTimes \cup {TooOld(Today) - 2},
                       b \in LifeTimes \cup {TooOld(Today) + 2}}

\* C25: after an insert the table holds one row per (site, valid_time), the
\* key just inserted carries the values just given and the other rows are
\* as they were; an ascending scan of the site over any range containing
\* the valid_time returns the row exactly once, in strictly ascending
\* valid_time.
C25_UpsertAndScan ==
    [][InsertStep
         => LET new == Row(st'.site, st'.valid_time, st'.t_f, st'.p_in)
            IN  /\ \A r1 \in store', r2 \in store' :
                     r1.site = r2.site /\ r1.valid_time = r2.valid_time => r1 = r2
                /\ new \in store'
                /\ \A r \in store \cup store' :
                     ~(r.site = new.site /\ r.valid_time = new.valid_time)
                         => (r \in store <=> r \in store')
                /\ \A tr \in ScanRanges :
                     tr.start <= new.valid_time /\ new.valid_time <= tr.end
                         => LET rows == ScanRows(store', new.site, tr)
                            IN  /\ Cardinality({i \in 1..Len(rows) : rows[i] = new}) = 1
                                /\ \A i \in 1..Len(rows) :
                                     rows[i].valid_time = new.valid_time
                                         => rows[i] = new
                                /\ \A i \in 1..(Len(rows) - 1) :
                                     rows[i].valid_time < rows[i + 1].valid_time]_vars

\* a row was stored over a row of the same key and other values, in a
\* table that holds an earlier and a later row of the site
C25_Witness ==
    /\ pc = "open"
    /\ st.header_parsed
    /\ st.t_f = 1000
    /\ st.valid_time = TooOld(Today)
    /\ store = {Row(kden, TooOld(Today) - 1, 0, 0), Row(kden, TooOld(Today), 1000, 0),
                Row(kden, TooOld(Today) + 1, 0, 0), Row(kslc, TooOld(Today), 0, 0)}

(***************************************************************************)
(* Errors of the store during the inventory scan.                          *)
(***************************************************************************)
\* sqlite3_prepare_v2 failed, or a sqlite3_step that the scan makes failed:
\* the scan of n rows makes n + 1 steps
ScanFailed ==
    q.dbfail = -1 \/ (q.dbfail >= 1 /\ q.dbfail <= Cardinality(InvTimes) + 1)

\* C27: when the store reports an error while the scan is prepared or
\* stepped, on the first row or on a later one, obs_db_have_inventory
\* returns -1 and an empty list of missing ranges; it returns 0 or 1 only
\* when the whole scan was read without error.
C27_ScanErrorIsReported ==
    InvDone /\ Cardinality(InvTimes) < MaxMissingRanges - 1
        => /\ ScanFailed => inv.rc = -1 /\ inv.missing = <<>>
           /\ inv.rc \in {0, 1} => ~ScanFailed

(***************************************************************************)
(* The windows of a temperature query against the documentation of         *)
(* obs_query_max_t and obs_query_min_t.                                    *)
(***************************************************************************)
TemperaturesDone == AggDone /\ q.kind \in {"max_t", "min_t"}

\* str_prd of the i-th window
WindowStart(i) == results[i].valid_time - HOURSEC * q.window_length

\* C26: the first window of a temperature query starts at tr.start and each
\* later window starts 24 hours after the one before, whatever tr.start and
\* window_length are.
C26_WindowsStartAtRangeStart ==
    TemperaturesDone
        => \A i \in 1..Len(results) : WindowStart(i) = q.tr.start + (i - 1) * DAYSEC

\* the hours of the day a caller may give as window_end
WindowEndHours == {0, 6, 12, 24}

OtherCase(site) == IF site = kden THEN KDEN ELSE kden

\* the call c made for another site
AskedFor(c, site) ==
    [c EXCEPT !.site = site,
              !.site_buf = Query(c.kind, site, c.tr, c.window_end, c.window_length,
                                 c.window_increment, c.dbfail).site_buf]

\* C28: every stored row carries a lowercase site, the rows a download
\* stores carry the lowercased site of its query, and a query asked with
\* the site in the other letter case gets the same inventory of the table
\* it found and the same results from the table it left (both compared
\* when the query has returned).
C28_SiteCaseIsNormalised ==
    /\ \A r \in store : r.site = obs_util_str_to_lower(r.site)
    /\ \A r \in dl.inserted : r.site = obs_util_str_to_lower(q.site)
    /\ q.kind # "none" /\ pc = "idle"
         => LET other == AskedFor(q, OtherCase(q.site))
            IN  /\ inv \in InventoryOutcomes(q.pre, other.site_buf,
                                             NeedHourlies(q.tr, q.window_length),
                                             q.dbfail)
                /\ rc = 0 => Aggregate(store, other).results = results

\* a query for KDEN has filled the table and a query for kden has then
\* read the same rows, without a download
C28_Witness ==
    /\ pc = "idle"
    /\ Len(log) = 2
    /\ log[1].q.site = KDEN
    /\ log[2].q.site = kden
    /\ log[1].ndl > 0
    /\ log[2].ndl = 0
    /\ log[1].rc = 0
    /\ log[2].results = log[1].results
    /\ log[2].results # <<>>
    /\ \E r \in store : r \notin log[1].q.pre /\ r.site = kden

StepHours(c) == IF c.kind = "precip" THEN c.window_increment ELSE 24

\* floor(((tr.end - tr.start) + 1) / 3600 / step)
CalculatedMaximum(c) == ((c.tr.end - c.tr.start + 1) \div 3600) \div StepHours(c)

\* C31: a query that succeeds emits at most
\* floor(((tr.end - tr.start) + 1) / 3600 / step) results, the capacity of
\* the array it allocated; a query whose calculated maximum is not below
\* SIZE_MAX / 2 (a step of 0) fails and hands back no array.
C31_CountWithinCapacity ==
    pc = "aggregate_done"
        => IF StepHours(q) = 0
           THEN rc = -1 /\ results = <<>>
           ELSE rc = 0 /\ Len(results) <= CalculatedMaximum(q)

\* three windows end within the range and the array holds two results
C31_Witness ==
    /\ AggDone
    /\ q.kind = "max_t"
    /\ q.tr = TimeRange(D0, D0 + 2 * DAYSEC + 1)
    /\ CalculatedMaximum(q) = 2
    /\ Len(results) = 2
    /\ results[2].valid_time = D0 + DAYSEC

(***************************************************************************)
(* The copy of the site identifier into site_buf.                          *)
(***************************************************************************)
\* identifiers of every length up to MaxSiteLen: all k, all K, and K then k
SiteTexts ==
    UNION {{[i \in 1..n |-> 107], [i \in 1..n |-> 75],
            [i \in 1..n |-> IF i = 1 THEN 75 ELSE 107]} : n \in 0..MaxSiteLen}

\* how obs_util_strcpy_to_lowercase ends for src.  With assertions compiled
\* in, a false assert aborts; compiled with NDEBUG, strcpy runs whatever
\* the length and may write outside buf
StrcpyOutcomes(buf_size, src) ==
    IF StrcpyFits(buf_size, src) THEN {"site_copied"}
    ELSE IF StrcpyInBuffer(buf_size, src) THEN {"site_aborted", "site_copied"}
    ELSE {"site_aborted", "site_overflow"}

InitSite ==
    /\ store = {}
    /\ env = FreeEnv
    /\ now = Today
    /\ pc = "site"
    /\ InitCommon

\* obs_store_query_t up to the copy of site into site_buf
CopySite ==
    /\ pc = "site"
    /\ \E site \in SiteTexts :
         /\ q' = Query("max_t", site, S1Range, 0, 24, 24, 0)
         /\ \E o \in StrcpyOutcomes(SiteBufSize, site) : pc' = o
    /\ UNCHANGED <<store, tx_base, in_tx, st, inv, mi, results, rc, ndl, log, env, pos,
                   frows, dl, curl, now, agg>>

NextSite == CopySite

SpecSite == InitSite /\ [][NextSite]_vars

\* C32: a query accepts every site identifier of 1 to 31 bytes: the length
\* precondition of the copy into the 32-byte buffer holds, the identifier is
\* copied, and nothing is written outside the buffer.
C32_AcceptsUpTo31Bytes ==
    pc \in {"site_copied", "site_aborted", "site_overflow"}
        /\ Len(q.site) >= 1 /\ Len(q.site) <= 31
        => pc = "site_copied" /\ StrcpyFits(SiteBufSize, q.site)

(***************************************************************************)
(* The caller's handle.  pc = "closed" is *store = 0.                      *)
(***************************************************************************)
\* C33: obs_close on a store nulls the caller's handle whether or not
\* obs_db_close succeeded, and obs_close on the nulled handle leaves the
\* table, the handle and the HTTP client as they were: nothing is released
\* a second time.
C33_CloseNullsAndIsIdempotent ==
    [][/\ q'.kind = "obs_close" /\ q.kind # "obs_close" => pc' = "closed"
       /\ pc = "closed" => pc' = "closed" /\ store' = store /\ curl' = curl]_vars

\* a store whose close met a store error was closed a second time: the
\* handle is null and its HTTP client was released once
C33_Witness ==
    /\ pc = "closed"
    /\ q.kind = "obs_close_null"
    /\ rc = -1
    /\ curl.handle
    /\ curl.easy_cleanups = 1
    /\ curl.global_cleanups = 1

(***************************************************************************)
(* The transaction of a download, with the faults of its statements.       *)
(* log holds the transaction statements the current download has executed, *)
(* q.site_buf the site it was called for.                                  *)
(***************************************************************************)
\* the sites downloads of this section are made for
TxSites == {kden, kslc}

\* the rows a download for site_id may bring
TxRows(site_id) == {Row(site_id, D0, 1000 * h, 0) : h \in 0..1}

\* sqlite3_exec of BEGIN TRANSACTION: it fails within an open transaction,
\* and may fail outside one
BeginOutcomes(open) == IF open THEN {"error"} ELSE {"ok", "error"}

\* obs_db_start_transaction
obs_db_start_transaction(open, how) ==
    [in_tx |-> open \/ how = "ok", rc |-> IF how = "ok" THEN 0 ELSE -1]

\* sqlite3_exec of COMMIT or ROLLBACK: without a transaction it fails; a
\* COMMIT that fails has either rolled the transaction back or, when the
\* database is busy, left it open
FinishOutcomes(open, action) ==
    IF ~open THEN {"error"}
    ELSE IF action = "COMMIT" THEN {"ok", "rolled_back", "busy"}
    ELSE {"ok"}

\* obs_db_finish_transaction with the outcome of its statement
FinishTransaction(db, base, open, action, how) ==
    [db |-> IF how = "rolled_back" THEN base
            ELSE IF how = "ok" THEN obs_db_finish_transaction(db, base, action)
            ELSE db,
     in_tx |-> open /\ how = "busy",
     rc |-> IF how = "ok" THEN 0 ELSE -1]

InitTx ==
    /\ store = {}
    /\ env = FreeEnv
    /\ now = Today
    /\ pc = "tx_idle"
    /\ InitCommon

\* obs_download calls obs_download_init_csv_state
obs_download_init_csv_state ==
    /\ pc = "tx_idle"
    /\ ndl < MaxTxDownloads
    /\ \E site_id \in TxSites, how \in BeginOutcomes(in_tx), stmt_ok \in BOOLEAN :
         /\ q' = [NoQuery EXCEPT !.kind = "obs_download", !.site_buf = site_id]
         /\ in_tx' = obs_db_start_transaction(in_tx, how).in_tx
         /\ tx_base' = IF how = "ok" THEN store ELSE tx_base
         /\ st' = IF how = "ok" /\ stmt_ok THEN InitCsvState(site_id) ELSE ErrCsvState
         /\ pc' = IF how = "ok" /\ stmt_ok THEN "tx_stream" ELSE "tx_finalize"
         /\ rc' = IF how = "ok" /\ stmt_ok THEN 0 ELSE -1
         /\ log' = <<[sql |-> "BEGIN", ok |-> how = "ok"]>>
    /\ ndl' = ndl + 1
    /\ frows' = 0
    /\ dl' = [NoDownload EXCEPT !.pre = store]
    /\ UNCHANGED <<store, inv, mi, results, env, pos, curl, now, agg>>

\* row_callback at the end of a data row
TxRowCallback ==
    /\ pc = "tx_stream"
    /\ frows < MaxTxRows
    /\ \E r \in TxRows(st.site), insert_ok \in BOOLEAN :
         LET s == [st EXCEPT !.header_parsed = TRUE, !.valid_time = r.valid_time,
                       !.t_f = r.t_f, !.p_in = r.precip_in_1hr, !.error = FALSE]
         IN  /\ store' = row_callback_db(s, store, insert_ok)
             /\ st' = row_callback_state(s)
    /\ frows' = frows + 1
    /\ UNCHANGED <<tx_base, in_tx, pc, q, inv, mi, results, rc, ndl, log, env, pos,
                   dl, curl, now, agg>>

\* the set-up of the client or curl_easy_perform returns, well or not
TxPerformReturns ==
    /\ pc = "tx_stream"
    /\ \E ok \in BOOLEAN : rc' = IF ok THEN 0 ELSE -1
    /\ pc' = "tx_finalize"
    /\ UNCHANGED <<store, tx_base, in_tx, st, q, inv, mi, results, ndl, log, env, pos,
                   frows, dl, curl, now, agg>>

\* RETURN: obs_download_finalize_csv_state, whose result obs_download drops
obs_download_finalize_csv_state ==
    /\ pc = "tx_finalize"
    /\ \E how \in FinishOutcomes(in_tx, FinalizeAction(st)) :
         LET f == FinishTransaction(store, tx_base, in_tx, FinalizeAction(st), how)
         IN  /\ store' = f.db
             /\ in_tx' = f.in_tx
             /\ log' = Append(log, [sql |-> FinalizeAction(st), ok |-> f.rc = 0])
    /\ dl' = [dl EXCEPT !.rc = rc, !.returned = TRUE]
    /\ pc' = "tx_idle"
    /\ UNCHANGED <<tx_base, st, q, inv, mi, results, rc, ndl, env, pos, frows, curl,
                   now, agg>>

NextTx ==
    \/ obs_download_init_csv_state
    \/ TxRowCallback
    \/ TxPerformReturns
    \/ obs_download_finalize_csv_state

SpecTx == InitTx /\ [][NextTx]_vars

\* C34: when obs_download has returned, it has executed one BEGIN and then
\* one COMMIT or ROLLBACK, and no transaction is open on the store.
C34_TransactionsArePaired ==
    pc = "tx_idle" /\ dl.returned
        => /\ Len(log) = 2
           /\ log[1].sql = "BEGIN"
           /\ log[2].sql \in {"COMMIT", "ROLLBACK"}
           /\ ~in_tx

(***************************************************************************)
(* One header row and one data row given to the parser callbacks.  log is  *)
(* the header row as it was given, results the data row as it was given.   *)
(***************************************************************************)
ColumnNames == {"Date_Time", "air_temp_set_1", "precip_accum_one_hour_set_1"}

\* the header cells of a column still to come: a name the code does not
\* recognise, or a recognised name the row has not had yet
CsvHeaderCells(row) ==
    {JunkCell} \cup {HdrCell({n}) : n \in {m \in ColumnNames :
                          \A i \in 1..Len(row) : m \notin row[i].toks}}

\* the data cells of column col, numbered from 0: nothing, or a number or
\* a time of the column's own
CsvDataCells(col) ==
    {NullCell, NumCell(1000 * (col + 1)), TimeCell(D0 + col * HOURSEC)}

InitCsv ==
    /\ store = {}
    /\ tx_base = {}
    /\ in_tx = TRUE
    /\ st = InitCsvState(kden)
    /\ pc = "csv_header"
    /\ q = NoQuery
    /\ inv = NoInventory
    /\ mi = 0
    /\ results = <<>>
    /\ rc = 0
    /\ ndl = 1
    /\ log = <<>>
    /\ env = FreeEnv
    /\ pos = 0
    /\ frows = 0
    /\ dl = NoDownload
    /\ curl = NoCurl
    /\ now = Today
    /\ agg = NoLocals

\* col_callback with a cell of the header row
CsvHeaderCell ==
    /\ pc = "csv_header"
    /\ Len(log) < MaxCsvCols
    /\ \E txt \in CsvHeaderCells(log) :
         /\ st' = col_callback(txt, st)
         /\ log' = Append(log, txt)
    /\ UNCHANGED <<store, tx_base, in_tx, pc, q, inv, mi, results, rc, ndl, env, pos,
                   frows, dl, curl, now, agg>>

\* row_callback at the end of the header row
CsvHeaderRow ==
    /\ pc = "csv_header"
    /\ Len(log) >= 1
    /\ store' = row_callback_db(st, store, TRUE)
    /\ st' = row_callback_state(st)
    /\ pc' = "csv_data"
    /\ frows' = frows + 1
    /\ UNCHANGED <<tx_base, in_tx, q, inv, mi, results, rc, ndl, log, env, pos, dl,
                   curl, now, agg>>

\* col_callback with a cell of the data row
CsvDataCell ==
    /\ pc = "csv_data"
    /\ Len(results) < MaxCsvCols
    /\ \E txt \in CsvDataCells(Len(results)) :
         /\ st' = col_callback(txt, st)
         /\ results' = Append(results, txt)
    /\ UNCHANGED <<store, tx_base, in_tx, pc, q, inv, mi, rc, ndl, log, env, pos,
                   frows, dl, curl, now, agg>>

\* row_callback at the end of the data row
CsvDataRow ==
    /\ pc = "csv_data"
    /\ Len(results) >= 1
    /\ store' = row_callback_db(st, store, TRUE)
    /\ st' = row_callback_state(st)
    /\ pc' = "csv_done"
    /\ frows' = frows + 1
    /\ UNCHANGED <<tx_base, in_tx, q, inv, mi, results, rc, ndl, log, env, pos, dl,
                   curl, now, agg>>

NextCsv ==
    \/ CsvHeaderCell
    \/ CsvHeaderRow
    \/ CsvDataCell
    \/ CsvDataRow

SpecCsv == InitCsv /\ [][NextCsv]_vars

\* the header row names the column
HasColumn(name) == \E i \in 1..Len(log) : name \in log[i].toks

\* the place in the header row of the column called name
ColumnOf(name) == CHOOSE i \in 1..Len(log) : name \in log[i].toks

\* the cell of the data row under the header called name
CellUnder(name) ==
    IF ColumnOf(name) <= Len(results) THEN results[ColumnOf(name)] ELSE JunkCell

\* the data row is valid: a time, a number and a number or nothing stand
\* under the three headers
ValidDataRow ==
    /\ \A n \in ColumnNames : ColumnOf(n) <= Len(results)
    /\ strptime(CellUnder("Date_Time")).ok
    /\ strtod(CellUnder("air_temp_set_1")).ok
    /\ \/ CellUnder("precip_accum_one_hour_set_1").kind = "null"
       \/ strtod(CellUnder("precip_accum_one_hour_set_1")).ok

RowUnderHeaders ==
    Row(kden, strptime(CellUnder("Date_Time")).value,
        strtod(CellUnder("air_temp_set_1")).value,
        IF CellUnder("precip_accum_one_hour_set_1").kind = "null" THEN 0
        ELSE strtod(CellUnder("precip_accum_one_hour_set_1")).value)

\* C35: with the three recognised names anywhere in the header row, among
\* any unrecognised columns, a valid data row is stored with the values of
\* the cells under Date_Time, air_temp_set_1 and
\* precip_accum_one_hour_set_1, and nothing else is stored.
C35_ColumnsComeFromHeader ==
    pc = "csv_done" /\ (\A n \in ColumnNames : HasColumn(n))
        => store = IF ValidDataRow THEN {RowUnderHeaders} ELSE {}

\* precipitation, station, temperature, unknown, time: the row is stored
\* from the fifth, the third and the first cell
C35_Witness ==
    /\ pc = "csv_done"
    /\ Len(log) = 5
    /\ Len(results) = 5
    /\ log[1] = HdrCell({"precip_accum_one_hour_set_1"})
    /\ log[3] = HdrCell({"air_temp_set_1"})
    /\ log[5] = HdrCell({"Date_Time"})
    /\ results[2] = NumCell(2000)
    /\ results[4] = TimeCell(D0 + 3 * HOURSEC)
    /\ store = {Row(kden, D0 + 4 * HOURSEC, 3000, 1000)}

\* the window ends on a step with tr.start <= e < tr.end
AlignedEnds(c) ==
    {e \in {DayStart(c.tr.start) + k * StepOf(c) :
                k \in 0..((c.tr.end - DayStart(c.tr.start)) \div StepOf(c))} :
        c.tr.start <= e /\ e < c.tr.end}

\* C36: every window end on a step with tr.start <= e < tr.end appears in
\* the results of a successful query.
C36_NoWindowSuppressed ==
    AggDone => AlignedEnds(q) \subseteq {results[i].valid_time : i \in 1..Len(results)}

\* the rows of the sites other than site_id
RowsOfOthers(db, site_id) == {r \in db : r.site # site_id}

\* C37: no step of an ingest for a site changes a stored row of another
\* site.  (The inventory check, the aggregation and a query that downloads
\* nothing read the table only.)
C37_IngestKeepsOtherSites ==
    [][RowsOfOthers(store', q'.site_buf) = RowsOfOthers(store, q'.site_buf)]_vars

(***************************************************************************)
(* obs_db_query_temperatures and obs_db_query_precipitation, one turn of   *)
(* their loops at a time.  agg holds their locals.                         *)
(***************************************************************************)
\* hour h after D0 has a row: temperatures that rise and fall within seven
\* hours, and every fifth hour a trace, every third other hour a tenth of
\* an inch
HourlyRow(h) ==
    Row(kden, D0 + h * HOURSEC, ((3 * h) % 7) * 1000,
        IF h % 5 = 0 THEN 5 ELSE IF h % 3 = 0 THEN 100 ELSE 0)

\* the tables: none, a row for every hour of two days and a bit, a row for
\* every fourth hour
LoopStores ==
    {{}, {HourlyRow(h) : h \in 0..49}, {HourlyRow(4 * h + 1) : h \in 0..11}}

InitLoop ==
    /\ store \in LoopStores
    /\ env = FreeEnv
    /\ now = Today
    /\ pc = "aggregate"
    /\ InitCommon

\* the call up to the alignment loop
LoopCall(c) ==
    /\ pc = "aggregate"
    /\ c.tr.start < c.tr.end
    /\ q' = [c EXCEPT !.pre = store]
    /\ results' = <<>>
    /\ IF obs_db_query_calculate_num_results(c.tr, StepHours(c)) = -1
       THEN /\ rc' = ERR_RETURN.rc
            /\ pc' = "aggregate_done"
            /\ agg' = NoLocals
       ELSE /\ rc' = 0
            /\ pc' = "align"
            /\ agg' = [hourlies |-> ScanRows(store, c.site_buf, c.tr),
                       end_prd |-> DayStart(c.tr.start), last_start |-> 1]
    /\ UNCHANGED <<store, tx_base, in_tx, st, inv, mi, ndl, log, env, pos, frows, dl,
                   curl, now>>

LoopTemperatures ==
    \E kind \in {"max_t", "min_t"}, tr \in AggRanges, wl \in AggLengths :
        LoopCall(Query(kind, kden, tr, 0, wl, 24, 0))

LoopPrecipitation ==
    \E tr \in AggRanges, wl \in AggLengths, wi \in AggIncrements :
        LoopCall(Query("precip", kden, tr, 0, wl, wi, 0))

\* while (end_prd < tr.start) end_prd += step
AlignTurn ==
    /\ pc = "align"
    /\ IF agg.end_prd < q.tr.start
       THEN /\ agg' = [agg EXCEPT !.end_prd = NextEnd(@, StepOf(q))]
            /\ pc' = pc
       ELSE /\ agg' = agg
            /\ pc' = "emit"
    /\ UNCHANGED <<store, tx_base, in_tx, st, q, inv, mi, results, rc, ndl, log, env,
                   pos, frows, dl, curl, now>>

\* the value of the window from start to end, and where it leaves last_start
WindowValue(c, hourlies, last_start, start, end) ==
    IF c.kind = "precip"
    THEN obs_db_query_precipitation_accumulation_in_window(hourlies, last_start,
                                                           start, end)
    ELSE obs_db_query_temperatures_max_min_in_window(
             hourlies, last_start, start, end,
             IF c.kind = "max_t" THEN OBS_DB_MAX_MODE ELSE OBS_DB_MIN_MODE)

\* the result stamped vt with value v
WindowOb(c, vt, v) ==
    IF c.kind = "precip" THEN PrecipitationOb(vt, v) ELSE TemperatureOb(vt, v)

\* while (end_prd < tr.end && *num_results < calc_num_res) { ... }
EmitTurn ==
    /\ pc = "emit"
    /\ IF EmitMore(agg.end_prd, q.tr, Len(results),
                   obs_db_query_calculate_num_results(q.tr, StepHours(q)))
       THEN LET m == WindowValue(q, agg.hourlies, agg.last_start,
                                 agg.end_prd - HOURSEC * q.window_length,
                                 agg.end_prd)
            IN  /\ results' = Append(results, WindowOb(q, agg.end_prd, m.val))
                /\ agg' = [agg EXCEPT !.end_prd = NextEnd(@, StepOf(q)),
                                      !.last_start = m.last_start]
                /\ pc' = pc
       ELSE /\ results' = results
            /\ agg' = agg
            /\ pc' = "aggregate_done"
    /\ UNCHANGED <<store, tx_base, in_tx, st, q, inv, mi, rc, ndl, log, env, pos,
                   frows, dl, curl, now>>

NextLoop ==
    \/ LoopTemperatures
    \/ LoopPrecipitation
    \/ AlignTurn
    \/ EmitTurn

SpecLoop == InitLoop /\ [][NextLoop]_vars

\* the tables of the runs followed to their end: none, a row for each of the
\* first eight hours, a row for every fourth hour
FairStores ==
    {{}, {HourlyRow(h) : h \in 0..7}, {HourlyRow(4 * h + 1) : h \in 0..11}}

InitLoopFair ==
    /\ store \in FairStores
    /\ env = FreeEnv
    /\ now = Today
    /\ pc = "aggregate"
    /\ InitCommon

\* a loop that can take its next turn takes it
SpecLoopFair ==
    InitLoopFair /\ [][NextLoop]_vars /\ WF_vars(AlignTurn) /\ WF_vars(EmitTurn)

\* C38: the alignment loop and the emission loop always finish, and a
\* precipitation query with window_increment = 0 enters neither: it returns
\* the failure code with no results.
C38_AggregationTerminates ==
    /\ (pc \in {"align", "emit"}) ~> (pc = "aggregate_done")
    /\ [](q.kind = "precip" /\ q.window_increment = 0
            => /\ pc \notin {"align", "emit"}
               /\ pc = "aggregate_done" => rc = -1 /\ results = <<>>)

\* hourly totals over two days from one second after midnight: the alignment
\* loop has taken end_prd to 01:00 and the emission loop has run 47 times
C38_Witness ==
    /\ pc = "aggregate_done"
    /\ rc = 0
    /\ q.kind = "precip"
    /\ q.window_increment = 1
    /\ q.tr = TimeRange(D0 + 1, D0 + 2 * DAYSEC)
    /\ Len(results) = 47
    /\ results[1].valid_time = D0 + HOURSEC
    /\ agg.end_prd = D0 + 2 * DAYSEC

\* the emission loop has just stored a result
Emitted == pc = "emit" /\ Len(results') = Len(results) + 1

\* C39: with ascending rows, each window's value computed from the shared
\* sliding pointer is the value a scan of all fetched rows from the first
\* gives; the pointer moves forward only, and every row it has passed is
\* earlier than the start of the window (so of every later window too).
C39_SlidingPointerIsAnOptimisation ==
    [][Emitted =>
          LET start == agg.end_prd - HOURSEC * q.window_length
              end == agg.end_prd
          IN  /\ results'[Len(results')] =
                     WindowOb(q, end, WindowValue(q, agg.hourlies, 1, start, end).val)
              /\ agg'.last_start >= agg.last_start
              /\ \A j \in 1..(agg'.last_start - 1) :
                     agg.hourlies[j].valid_time < start]_vars

\* hourly rows, 24-hour totals every hour: windows overlap, the pointer has
\* passed the first five rows, and the last total is not zero
C39_Witness ==
    /\ pc = "emit"
    /\ q.kind = "precip"
    /\ q.window_length = 24
    /\ q.window_increment = 1
    /\ Len(agg.hourlies) = 49
    /\ agg.last_start = 6
    /\ Len(results) > 24
    /\ results[Len(results)].precip_in > 0

====
